---------------------------- MODULE Spec2Model ----------------------------
(***************************************************************************)
(* A model of the log-scout LSP server:                                    *)
(*   - the TagScout sync service and its cache manager                     *)
(*     (src/src/tagscout/mod.rs, src/src/tagscout/cache.rs),               *)
(*   - the LSP document handlers and the engine slot (src/src/server.rs),  *)
(*   - the pure functions of the detection pipeline                        *)
(*     (deduplicate_detections, detection_to_diagnostic,                   *)
(*      substitute_template in src/src/server.rs; evaluate_severity in     *)
(*      src/src/pattern_engine.rs).                                        *)
(*                                                                         *)
(* Each subsystem has its own variables and its own specification          *)
(* (SpecSync, SpecServer, SpecDedup, SpecSubst, SpecSeverity); a           *)
(* specification leaves the other subsystems' variables at their idle      *)
(* value.                                                                  *)
(***************************************************************************)
EXTENDS Integers, Sequences, FiniteSets, TLC

VARIABLES
    \* ---- sync service (SyncService, CacheManager) ----
    sync_mode,      \* SyncServiceConfig.sync_mode
    svc,            \* life cycle of the service: new / initializing / ready / failed
    client,         \* SyncService.client: Option<TagScoutClient>
    cache,          \* CacheManager.cache: Option<PatternCache>
    cache_file,     \* tagscout_patterns.json on disk
    backup_file,    \* tagscout_patterns.backup.json on disk
    temp_file,      \* tagscout_patterns.tmp on disk
    cm_lock,        \* the RwLock around the CacheManager
    last_sync,      \* SyncService.last_sync: Option<DateTime>
    now,            \* the clock (Utc::now)
    spc,            \* per sync() caller: where it is suspended
    sloc,           \* per sync() caller: the locals of its call
    sres,           \* per sync() caller: what its last call returned
    \* ---- LSP server (LogScoutServer) ----
    documents,      \* LogScoutServer.documents: DashMap<Url, String>
    pattern_engine, \* LogScoutServer.pattern_engine: Option<PatternEngine>
    pe_lock,        \* the RwLock around the engine slot
    tagscout_service, \* LogScoutServer.tagscout_service: is a SyncService stored
    engines_built,  \* how many engines have been constructed so far
    hpc,            \* per handler task: where it is suspended
    hloc,           \* per handler task: its locals
    published,      \* what the client last received by publishDiagnostics, per uri
    \* ---- pure functions of the pipeline ----
    fin,            \* the input of the function under check
    fout,           \* its result
    fphase          \* "input" before the call, "done" after it

syncVars == <<sync_mode, svc, client, cache, cache_file, cm_lock, last_sync, now,
              spc, sloc, sres>>
diskVars == <<backup_file, temp_file>>
serverVars == <<documents, pattern_engine, pe_lock, tagscout_service, engines_built,
                hpc, hloc, published>>
funVars == <<fin, fout, fphase>>
vars == <<syncVars, diskVars, serverVars, funVars>>

\* Option<T>: None is the empty sequence, Some(x) the one-element sequence.
None == <<>>
Some(x) == <<x>>
IsSome(o) == Len(o) = 1
Unwrap(o) == o[1]

Min(a, b) == IF a <= b THEN a ELSE b

(***************************************************************************)
(*                          THE SYNC SERVICE                               *)
(***************************************************************************)

\* Bounds of the sync model.
MaxTasks == 2       \* concurrent callers of sync()
MaxTime == 1        \* the clock runs 0..MaxTime
CacheTtl == 0       \* cache_ttl_seconds, in clock ticks

Tasks == 1..MaxTasks

SyncModes == {"OfflineOnly", "OnlineFirst", "CacheFirst", "AlwaysOnline"}

\* A TagScoutAnnotation, as far as the sync path reads it.
\* regex is what regexes.first() is: "none", or a pattern that is "ok" or "bad".
Annotation(i, prod, cont) == [id |-> i, production |-> prod, content |-> cont, regex |-> "ok"]

\* What one fetch_all_annotations() can return: the query filters production = true.
FetchLists ==
    { <<Annotation(1, TRUE, FALSE), Annotation(2, TRUE, FALSE)>>,
      <<Annotation(1, TRUE, TRUE), Annotation(2, TRUE, FALSE)>> }

\* ConverterConfig, as far as convert reads it here, and its Default.
ConverterConfigs == [include_inactive : BOOLEAN, validate_regex : BOOLEAN]
DefaultConverterConfig == [include_inactive |-> FALSE, validate_regex |-> TRUE]

\* The Err(ConversionError) of convert.
ConvertErr(variant) == [ok |-> FALSE, error |-> variant]

\* PatternConverter::convert under the configuration config: the production
\* check, the content check, the first regex and its validation, then the Pattern.
ConvertWith(config, a) ==
    IF ~a.production /\ ~config.include_inactive THEN ConvertErr("ConversionFailed")
    ELSE IF a.content THEN ConvertErr("ConversionFailed")
    ELSE IF a.regex = "none" THEN ConvertErr("MissingField")
    ELSE IF config.validate_regex /\ a.regex = "bad" THEN ConvertErr("InvalidPattern")
    ELSE [ok |-> TRUE,
          pattern |-> [id |-> a.id, enabled |-> a.production, regex_ok |-> (a.regex = "ok")]]

\* PatternConverter::convert of the sync service, whose converter has the
\* default configuration: the rejected annotations give None.
Convert(a) ==
    LET r == ConvertWith(DefaultConverterConfig, a)
    IN  IF r.ok THEN Some(r.pattern) ELSE None

\* PatternConverter::convert_batch_with_products: failures are skipped.
RECURSIVE ConvertBatch(_)
ConvertBatch(anns) ==
    IF anns = <<>> THEN <<>>
    ELSE LET p == Convert(Head(anns))
         IN  (IF IsSome(p) THEN <<Unwrap(p)>> ELSE <<>>) \o ConvertBatch(Tail(anns))

\* annotations.into_iter().zip(patterns): pairs by position, up to the shorter list.
ZipTuples(anns, pats) ==
    [i \in 1..Min(Len(anns), Len(pats)) |-> <<anns[i], pats[i]>>]

\* PatternCache::update_metadata
UpdateMetadata(c, t) ==
    [c EXCEPT !.last_updated = t, !.pattern_count = Cardinality(DOMAIN c.patterns)]

\* PatternCache::new
NewCache(t) == [patterns |-> <<>>, last_updated |-> t, pattern_count |-> 0]

\* PatternCache::add_pattern: insert by pattern id, then update_metadata.
AddPattern(c, ann, pat, t) ==
    LET ids == DOMAIN c.patterns \cup {pat.id}
        ps == [i \in ids |-> IF i = pat.id THEN [annotation |-> ann.id, pattern |-> pat.id]
                             ELSE c.patterns[i]]
    IN  UpdateMetadata([c EXCEPT !.patterns = ps], t)

\* PatternCache::add_patterns
RECURSIVE AddPatterns(_, _, _)
AddPatterns(c, tuples, t) ==
    IF tuples = <<>> THEN c
    ELSE AddPatterns(AddPattern(c, Head(tuples)[1], Head(tuples)[2], t), Tail(tuples), t)

\* PatternCache::is_expired
IsExpired(c, t) == (t - c.last_updated) > CacheTtl

\* The cache file: absent, present but not deserializable, or a saved cache.
FileAbsent == [kind |-> "absent"]
FileCorrupt == [kind |-> "corrupt"]
FileOf(c) == [kind |-> "ok", cache |-> c]

\* A file that was being written when the writer stopped: a truncated document.
FilePartial == [kind |-> "partial"]

\* The three files of the cache directory.
Disk == [current |-> cache_file, backup |-> backup_file, temp |-> temp_file]

SetDisk(d) ==
    /\ cache_file' = d.current
    /\ backup_file' = d.backup
    /\ temp_file' = d.temp

\* save(): if cache_path.exists() { fs::copy(&cache_path, &backup_path) }
SaveBackup(d) ==
    IF d.current.kind # "absent" THEN [d EXCEPT !.backup = d.current] ELSE d

\* A variant of the write that goes to the current file itself.
WriteContent_InPlace(d, content) == [d EXCEPT !.current = content]

\* save(): fs::write(&temp_path, content), for what reached the file.
WriteContent(d, content) == [d EXCEPT !.temp = content]

\* save(): fs::rename(&temp_path, &cache_path)
SaveRename(d) == [d EXCEPT !.current = d.temp, !.temp = FileAbsent]

\* A variant of is_cache_valid that forgets the expiry check.
IsCacheValid_NoExpiry(file, t) == file.kind = "ok"

\* CacheManager::is_cache_valid
IsCacheValid(file, t) ==
    IF file.kind = "absent" THEN FALSE
    ELSE IF file.kind = "corrupt" THEN FALSE
    ELSE ~IsExpired(file.cache, t)

\* The tokio RwLock around the CacheManager.
LockFree == [readers |-> {}, writer |-> 0]
CanRead(l) == l.writer = 0
CanWrite(l) == l.writer = 0 /\ l.readers = {}

\* A SyncResult, or the error sync() returned.
SyncOk(fetched, cached, fromc, warns) ==
    [ok |-> TRUE, patterns_fetched |-> fetched, patterns_cached |-> cached,
     from_cache |-> fromc, warnings |-> warns]
SyncErr(e) == [ok |-> FALSE, error |-> e]
NoResult == [ok |-> FALSE, error |-> "none"]

\* What a call saw on disk when it loaded the cache file: the kind of file and
\* the number of entries it held.
Seen(file) ==
    [kind |-> file.kind,
     held |-> IF file.kind = "ok" THEN Cardinality(DOMAIN file.cache.patterns) ELSE 0]

\* What a call saw on disk when it checked the cache file: the kind of file and
\* the age of its last update at time t.
Checked(file, t) ==
    [kind |-> file.kind,
     age |-> IF file.kind = "ok" THEN t - file.cache.last_updated ELSE 0]

\* The locals of one sync() call.
FreshLocals ==
    [warnings |-> 0,           \* warnings.len()
     mongo_failed |-> FALSE,   \* sync_from_mongodb returned Err in this call
     fetched_remote |-> FALSE, \* this call started a remote fetch
     force |-> FALSE,          \* the call is force_refresh(), not sync()
     checked |-> None,         \* CacheFirst: what is_cache_valid found on disk
     loaded |-> None,          \* sync_from_cache: what the load found on disk
     fetched |-> <<>>,         \* annotations_with_products
     result |-> NoResult]      \* the inner SyncResult

\* A variant of the match in which OfflineOnly goes to the remote store.
EntryPc_OfflineFetches(mode, cl) ==
    CASE mode = "OfflineOnly" -> "m_fetch"
      [] mode = "AlwaysOnline" -> IF cl = None THEN "done" ELSE "m_fetch"
      [] mode = "OnlineFirst" -> IF cl = None THEN "c_wlock" ELSE "m_fetch"
      [] mode = "CacheFirst" -> "cf_rlock"

\* Where sync() goes first, by mode (the match in SyncService::sync).
\* sync_from_mongodb starts with the client check, which does not suspend.
EntryPc(mode, cl) ==
    CASE mode = "OfflineOnly" -> "c_wlock"
      [] mode = "AlwaysOnline" -> IF cl = None THEN "done" ELSE "m_fetch"
      [] mode = "OnlineFirst" -> IF cl = None THEN "c_wlock" ELSE "m_fetch"
      [] mode = "CacheFirst" -> "cf_rlock"

\* Caches the program itself has saved before this run.
SavedCaches ==
    { AddPatterns(NewCache(0), ZipTuples(l, ConvertBatch(l)), 0) :
        l \in { <<Annotation(1, TRUE, FALSE)>> } }

InitialFiles == {FileAbsent, FileCorrupt} \cup {FileOf(c) : c \in SavedCaches}

\* The variables of the other subsystems, which the sync service never touches.
notSync == <<diskVars, serverVars, funVars>>

SyncInit ==
    /\ sync_mode \in SyncModes
    /\ svc = "new"
    /\ client = None
    /\ cache = None
    /\ cache_file \in InitialFiles
    /\ backup_file = FileAbsent
    /\ temp_file = FileAbsent
    /\ cm_lock = LockFree
    /\ last_sync = None
    /\ now = 0
    /\ spc = [t \in Tasks |-> "idle"]
    /\ sloc = [t \in Tasks |-> FreshLocals]
    /\ sres = [t \in Tasks |-> NoResult]
    \* the server and the pure functions are not running
    /\ documents = <<>> /\ pattern_engine = None /\ pe_lock = LockFree
    /\ tagscout_service = FALSE /\ engines_built = 0
    /\ hpc = <<>> /\ hloc = <<>> /\ published = <<>>
    /\ fin = <<>> /\ fout = <<>> /\ fphase = "idle"

\* sync() returned r to its caller; when the caller is initialize(), the service
\* is kept on Ok and dropped on Err.
Returned(r) == IF svc = "initializing" THEN (IF r.ok THEN "ready" ELSE "failed") ELSE svc

\* A variant in which every mode warns and goes on to the cache.
MongoFailed_FallsBack(t, loc, e) ==
    /\ spc' = [spc EXCEPT ![t] = "c_wlock"]
    /\ sloc' = [sloc EXCEPT ![t] = [loc EXCEPT !.mongo_failed = TRUE, !.warnings = @ + 1]]
    /\ sres' = [sres EXCEPT ![t] = NoResult]
    /\ svc' = svc

\* sync_from_mongodb returned Err(e) to the call of task t with locals loc:
\* sync() returns it in AlwaysOnline, and warns and goes on to the cache otherwise.
MongoFailed(t, loc, e) ==
    IF sync_mode = "AlwaysOnline"
    THEN /\ spc' = [spc EXCEPT ![t] = "done"]
         /\ sres' = [sres EXCEPT ![t] = SyncErr(e)]
         /\ sloc' = [sloc EXCEPT ![t] = [loc EXCEPT !.mongo_failed = TRUE]]
         /\ svc' = Returned(SyncErr(e))
    ELSE /\ spc' = [spc EXCEPT ![t] = "c_wlock"]
         /\ sloc' = [sloc EXCEPT ![t] = [loc EXCEPT !.mongo_failed = TRUE,
                                                     !.warnings = @ + 1]]
         /\ sres' = [sres EXCEPT ![t] = NoResult]
         /\ svc' = svc

\* sync() up to its first suspension, for the client cl: the mode match and, on
\* the remote path, the client check of sync_from_mongodb.
EnterSync(t, cl) ==
    IF sync_mode \in {"AlwaysOnline", "OnlineFirst"} /\ cl = None
    THEN MongoFailed(t, FreshLocals, "NotInitialized")
    ELSE /\ spc' = [spc EXCEPT ![t] = EntryPc(sync_mode, cl)]
         /\ sloc' = [sloc EXCEPT ![t] =
                       [FreshLocals EXCEPT !.fetched_remote = (EntryPc(sync_mode, cl) = "m_fetch")]]
         /\ sres' = [sres EXCEPT ![t] = NoResult]
         /\ svc' = svc

\* A variant in which a failed connection is a warning in every mode.
ConnectionFatal_Never(mode) == FALSE

\* initialize(): the modes in which a failed connection is returned as the error.
ConnectionFatal(mode) == mode \in {"AlwaysOnline", "OnlineFirst"}

\* SyncService::initialize: the connection attempt, then self.sync() up to its
\* first suspension. Task 1 is the caller of initialize().
InitializeConnect ==
    /\ svc = "new"
    /\ \E connected \in BOOLEAN :
         LET cl == IF sync_mode # "OfflineOnly" /\ connected THEN Some("client") ELSE None
         IN  /\ client' = cl
             /\ IF cl = None /\ sync_mode # "OfflineOnly" /\ ConnectionFatal(sync_mode)
                THEN svc' = "failed" /\ UNCHANGED <<spc, sloc, sres>>
                ELSE /\ spc' = [spc EXCEPT ![1] = EntryPc(sync_mode, cl)]
                     /\ sloc' = [sloc EXCEPT ![1] =
                          [FreshLocals EXCEPT !.fetched_remote = (EntryPc(sync_mode, cl) = "m_fetch")]]
                     /\ sres' = sres
                     /\ svc' = "initializing"
    /\ UNCHANGED <<sync_mode, cache, cache_file, cm_lock, last_sync, now>>
    /\ UNCHANGED notSync

\* A caller enters sync() on the initialized service.
SyncStart(t) ==
    /\ svc = "ready"
    /\ spc[t] \in {"idle", "done"}
    /\ EnterSync(t, client)
    /\ UNCHANGED <<sync_mode, client, cache, cache_file, cm_lock, last_sync, now>>
    /\ UNCHANGED notSync

\* CacheFirst: self.cache_manager.read().await
CfReadLock(t) ==
    /\ spc[t] = "cf_rlock"
    /\ CanRead(cm_lock)
    /\ cm_lock' = [cm_lock EXCEPT !.readers = @ \cup {t}]
    /\ spc' = [spc EXCEPT ![t] = "cf_valid"]
    /\ UNCHANGED <<sync_mode, svc, client, cache, cache_file, last_sync, now, sloc, sres>>
    /\ UNCHANGED notSync

\* CacheFirst: manager.is_cache_valid().await under the read guard, which is then
\* dropped; on an invalid cache sync_from_mongodb starts with its client check.
CfIsCacheValid(t) ==
    /\ spc[t] = "cf_valid"
    /\ cm_lock' = [cm_lock EXCEPT !.readers = @ \ {t}]
    /\ LET v == IsCacheValid(cache_file, now)
           loc == [sloc[t] EXCEPT !.checked = Some(Checked(cache_file, now))]
       IN  IF v
           THEN /\ spc' = [spc EXCEPT ![t] = "c_wlock"]
                /\ sloc' = [sloc EXCEPT ![t] = loc]
                /\ UNCHANGED <<sres, svc>>
           ELSE IF client = None
           THEN MongoFailed(t, loc, "NotInitialized")
           ELSE /\ spc' = [spc EXCEPT ![t] = "m_fetch"]
                /\ sloc' = [sloc EXCEPT ![t] = [loc EXCEPT !.fetched_remote = TRUE]]
                /\ UNCHANGED <<sres, svc>>
    /\ UNCHANGED <<sync_mode, client, cache, cache_file, last_sync, now>>
    /\ UNCHANGED notSync

\* sync_from_mongodb returned r to force_refresh(), which returns it as it is.
ForceReturn(t, loc, r) ==
    /\ spc' = [spc EXCEPT ![t] = "done"]
    /\ sres' = [sres EXCEPT ![t] = r]
    /\ sloc' = [sloc EXCEPT ![t] = loc]
    /\ svc' = svc

\* SyncService::force_refresh: self.sync_from_mongodb().await up to its first
\* suspension, whatever the mode: the client check, then the fetch.
ForceRefreshStart(t) ==
    /\ svc = "ready"
    /\ spc[t] \in {"idle", "done"}
    /\ LET loc == [FreshLocals EXCEPT !.force = TRUE]
       IN  IF client = None
           THEN ForceReturn(t, loc, SyncErr("NotInitialized"))
           ELSE /\ spc' = [spc EXCEPT ![t] = "m_fetch"]
                /\ sloc' = [sloc EXCEPT ![t] = [loc EXCEPT !.fetched_remote = TRUE]]
                /\ sres' = [sres EXCEPT ![t] = NoResult]
                /\ svc' = svc
    /\ UNCHANGED <<sync_mode, client, cache, cache_file, cm_lock, last_sync, now>>
    /\ UNCHANGED notSync

\* fetch_all_annotations() fails.
MongoFetchFail(t) ==
    /\ spc[t] = "m_fetch"
    /\ IF sloc[t].force
       THEN ForceReturn(t, sloc[t], SyncErr("ClientError"))
       ELSE MongoFailed(t, sloc[t], "ClientError")
    /\ UNCHANGED <<sync_mode, client, cache, cache_file, cm_lock, last_sync, now>>
    /\ UNCHANGED notSync

\* fetch_all_annotations() returns a list, which is converted.
MongoFetchOk(t) ==
    /\ spc[t] = "m_fetch"
    /\ \E l \in FetchLists : sloc' = [sloc EXCEPT ![t].fetched = l]
    /\ spc' = [spc EXCEPT ![t] = "m_wlock"]
    /\ UNCHANGED <<sync_mode, svc, client, cache, cache_file, cm_lock, last_sync, now, sres>>
    /\ UNCHANGED notSync

\* A variant of update that starts from an empty cache every time.
ManagerUpdate_Replace(c, tuples, t) == Some(AddPatterns(NewCache(t), tuples, t))

\* CacheManager::update, its in-memory half: get_or_insert_with, then add_patterns.
ManagerUpdate(c, tuples, t) ==
    Some(AddPatterns(IF IsSome(c) THEN Unwrap(c) ELSE NewCache(t), tuples, t))

\* The SyncResult of sync_from_mongodb for the fetched list.
FromMongoResult(fetched) == SyncOk(Len(fetched), Len(ConvertBatch(fetched)), FALSE, 0)

\* sync_from_mongodb: self.cache_manager.write().await, then update() up to the
\* first await of its save() (auto_save is on).
MongoWriteLock(t) ==
    /\ spc[t] = "m_wlock"
    /\ CanWrite(cm_lock)
    /\ cm_lock' = [cm_lock EXCEPT !.writer = t]
    /\ cache' = ManagerUpdate(cache,
                    ZipTuples(sloc[t].fetched, ConvertBatch(sloc[t].fetched)), now)
    /\ sloc' = [sloc EXCEPT ![t].result = FromMongoResult(sloc[t].fetched),
                            ![t].fetched = <<>>]
    /\ spc' = [spc EXCEPT ![t] = "m_save"]
    /\ UNCHANGED <<sync_mode, svc, client, cache_file, last_sync, now, sres>>
    /\ UNCHANGED notSync

\* A variant of the end of sync() that does not record the time.
Finish_NoRecord(t, loc) ==
    LET r == [loc.result EXCEPT !.warnings = loc.warnings]
    IN  /\ last_sync' = last_sync
        /\ sres' = [sres EXCEPT ![t] = r]
        /\ sloc' = [sloc EXCEPT ![t] = loc]
        /\ spc' = [spc EXCEPT ![t] = "done"]
        /\ svc' = Returned(r)

\* sync(): *self.last_sync.write().await = Some(now), then Ok(SyncResult{..}) with
\* the warnings of this call.
Finish(t, loc) ==
    LET r == [loc.result EXCEPT !.warnings = loc.warnings]
    IN  /\ last_sync' = Some(now)
        /\ sres' = [sres EXCEPT ![t] = r]
        /\ sloc' = [sloc EXCEPT ![t] = loc]
        /\ spc' = [spc EXCEPT ![t] = "done"]
        /\ svc' = Returned(r)

\* What a save() that returns an I/O error can leave on disk: the copy failed,
\* the write failed (the temp file may be truncated), or the rename failed.
SaveFailures(d, content) ==
    {d, SaveBackup(d), WriteContent(SaveBackup(d), FilePartial),
     WriteContent(SaveBackup(d), content)}

\* CacheManager::save succeeds; sync_from_mongodb returns Ok and sync() finishes.
\* The sync service reads the current file only: the backup and the temp file
\* that save() writes are followed step by step by the save actions below.
MongoSave(t) ==
    /\ spc[t] = "m_save"
    /\ cache_file' = SaveRename(WriteContent(SaveBackup(Disk), FileOf(Unwrap(cache)))).current
    /\ cm_lock' = [cm_lock EXCEPT !.writer = 0]
    /\ IF sloc[t].force
       THEN ForceReturn(t, sloc[t], sloc[t].result) /\ last_sync' = last_sync
       ELSE Finish(t, sloc[t])
    /\ UNCHANGED <<sync_mode, client, cache, now>>
    /\ UNCHANGED notSync

\* CacheManager::save fails with an I/O error; sync_from_mongodb returns Err.
MongoSaveFail(t) ==
    /\ spc[t] = "m_save"
    /\ cm_lock' = [cm_lock EXCEPT !.writer = 0]
    /\ IF sloc[t].force
       THEN ForceReturn(t, [sloc[t] EXCEPT !.result = NoResult], SyncErr("CacheError"))
       ELSE MongoFailed(t, [sloc[t] EXCEPT !.result = NoResult], "CacheError")
    /\ \E d \in SaveFailures(Disk, FileOf(Unwrap(cache))) : cache_file' = d.current
    /\ UNCHANGED <<sync_mode, client, cache, last_sync, now>>
    /\ UNCHANGED notSync

\* sync_from_cache: self.cache_manager.write().await
CacheWriteLock(t) ==
    /\ spc[t] = "c_wlock"
    /\ CanWrite(cm_lock)
    /\ cm_lock' = [cm_lock EXCEPT !.writer = t]
    /\ spc' = [spc EXCEPT ![t] = "c_load"]
    /\ UNCHANGED <<sync_mode, svc, client, cache, cache_file, last_sync, now, sloc, sres>>
    /\ UNCHANGED notSync

\* A variant of sync_from_cache's result that does not say it came from the cache.
FromCacheResult_NotFromCache(c) == SyncOk(c.pattern_count, c.pattern_count, FALSE, 0)

\* The SyncResult sync_from_cache builds from the cache it loaded.
FromCacheResult(c) == SyncOk(c.pattern_count, c.pattern_count, TRUE, 0)

\* CacheManager::load_or_create on the file: the cache it installs and returns,
\* or None for the error of a file that does not deserialize.
LoadOrCreate(file, t) ==
    CASE file.kind = "absent" -> Some(NewCache(t))
      [] file.kind = "corrupt" -> None
      [] file.kind = "ok" -> Some(file.cache)

\* sync_from_cache: load_or_create() under the write guard; sync() then finishes,
\* or returns the load error.
CacheLoad(t) ==
    /\ spc[t] = "c_load"
    /\ cm_lock' = [cm_lock EXCEPT !.writer = 0]
    /\ LET got == LoadOrCreate(cache_file, now)
           loc == [sloc[t] EXCEPT !.loaded = Some(Seen(cache_file))]
       IN  IF IsSome(got)
           THEN /\ cache' = got
                /\ Finish(t, [loc EXCEPT !.result = FromCacheResult(Unwrap(got))])
           ELSE /\ cache' = cache
                /\ sloc' = [sloc EXCEPT ![t] = loc]
                /\ spc' = [spc EXCEPT ![t] = "done"]
                /\ sres' = [sres EXCEPT ![t] = SyncErr("CacheError")]
                /\ svc' = Returned(SyncErr("CacheError"))
                /\ last_sync' = last_sync
    /\ UNCHANGED <<sync_mode, client, cache_file, now>>
    /\ UNCHANGED notSync

\* Time passes.
Tick ==
    /\ now < MaxTime
    /\ now' = now + 1
    /\ UNCHANGED <<sync_mode, svc, client, cache, cache_file, cm_lock, last_sync,
                   spc, sloc, sres>>
    /\ UNCHANGED notSync

SyncNext ==
    \/ InitializeConnect
    \/ Tick
    \/ \E t \in Tasks :
         \/ SyncStart(t)
         \/ CfReadLock(t)
         \/ CfIsCacheValid(t)
         \/ MongoFetchFail(t)
         \/ MongoFetchOk(t)
         \/ MongoWriteLock(t)
         \/ MongoSave(t)
         \/ MongoSaveFail(t)
         \/ CacheWriteLock(t)
         \/ CacheLoad(t)

\* The sync service with callers of force_refresh() as well.
ForceNext ==
    \/ SyncNext
    \/ \E t \in Tasks : ForceRefreshStart(t)

(***************************************************************************)
(*                 CacheManager::save, STEP BY STEP                        *)
(***************************************************************************)

\* What save() and the process around it leave alone.
notSave == <<sync_mode, svc, client, cache, cm_lock, last_sync, now, spc, sloc, sres,
             serverVars>>

\* The caches given to save().
CachesToSave ==
    SavedCaches \cup {AddPatterns(NewCache(0), ZipTuples(l, ConvertBatch(l)), 0) : l \in FetchLists}

SaveInit ==
    /\ cache_file \in InitialFiles
    /\ backup_file = FileAbsent
    /\ temp_file = FileAbsent
    /\ fin = <<>>
    /\ fout = <<>>
    /\ fphase = "idle"
    \* the sync service and the server are not running
    /\ sync_mode = "OfflineOnly" /\ svc = "new" /\ client = None /\ cache = None
    /\ cm_lock = LockFree /\ last_sync = None /\ now = 0
    /\ spc = <<>> /\ sloc = <<>> /\ sres = <<>>
    /\ documents = <<>> /\ pattern_engine = None /\ pe_lock = LockFree
    /\ tagscout_service = FALSE /\ engines_built = 0
    /\ hpc = <<>> /\ hloc = <<>> /\ published = <<>>

\* save(cache) is called, by the running process or by one started after a stop:
\* fin keeps the cache and the current file as the call found it.
SaveStart ==
    /\ fphase \in {"idle", "returned", "stopped"}
    /\ \E c \in CachesToSave : fin' = [previous |-> cache_file, cache |-> c]
    /\ fout' = <<>>
    /\ fphase' = "copy"
    /\ UNCHANGED <<cache_file, backup_file, temp_file>>
    /\ UNCHANGED notSave

\* The backup copy is made (when there is a current file).
SaveCopy ==
    /\ fphase = "copy"
    /\ SetDisk(SaveBackup(Disk))
    /\ fphase' = "write"
    /\ UNCHANGED <<fin, fout>>
    /\ UNCHANGED notSave

\* The temp file is written.
SaveWrite ==
    /\ fphase = "write"
    /\ SetDisk(WriteContent(Disk, FileOf(fin.cache)))
    /\ fphase' = "rename"
    /\ UNCHANGED <<fin, fout>>
    /\ UNCHANGED notSave

\* The temp file is renamed to the current file, and save() returns Ok.
SaveRenamed ==
    /\ fphase = "rename"
    /\ SetDisk(SaveRename(Disk))
    /\ fphase' = "returned"
    /\ fout' = [ok |-> TRUE, at |-> "rename"]
    /\ UNCHANGED fin
    /\ UNCHANGED notSave

\* What the step at phase ph can leave on disk when it does not complete: a
\* truncated backup (if there is a file to copy), a truncated temp file, or,
\* for the rename, which is atomic, nothing.
Incomplete(d, ph) ==
    CASE ph = "copy" -> {d} \cup (IF d.current.kind # "absent"
                                  THEN {[d EXCEPT !.backup = FilePartial]} ELSE {})
      [] ph = "write" -> {d, WriteContent(d, FilePartial)}
      [] ph = "rename" -> {d}

\* A step of save() fails with an I/O error, and save() returns it.
SaveError ==
    /\ fphase \in {"copy", "write", "rename"}
    /\ (fphase = "copy" => cache_file.kind # "absent")
    /\ \E d \in Incomplete(Disk, fphase) : SetDisk(d)
    /\ fout' = [ok |-> FALSE, at |-> fphase]
    /\ fphase' = "returned"
    /\ UNCHANGED fin
    /\ UNCHANGED notSave

\* The process stops while save() is at one of its steps.
ProcessStops ==
    /\ fphase \in {"copy", "write", "rename"}
    /\ \E d \in Incomplete(Disk, fphase) : SetDisk(d)
    /\ fout' = [ok |-> FALSE, at |-> fphase]
    /\ fphase' = "stopped"
    /\ UNCHANGED fin
    /\ UNCHANGED notSave

SaveNext ==
    \/ SaveStart
    \/ SaveCopy
    \/ SaveWrite
    \/ SaveRenamed
    \/ SaveError
    \/ ProcessStops

(***************************************************************************)
(*                           THE LSP SERVER                                *)
(***************************************************************************)

\* Bound of the server model.
MaxHandlers == 2    \* LSP handler tasks that run concurrently

\* Task 0 is the initialize_tagscout task that initialized() spawns.
Handlers == 1..MaxHandlers
ServerTasks == 0..MaxHandlers

\* The one document of the model.
Uris == {"u"}

\* The document texts, as lists of lines: a line "hit" matches the engine's pattern.
TextA == <<"hit", "hit">>
TextB == <<"miss">>
NoDoc == <<>>

\* A Pattern, as far as PatternEngine::new reads it; the name tells patterns of
\* one id apart.
Pat(i, nm, en, rx) ==
    [id |-> i, name |-> nm, enabled |-> en, regex_ok |-> rx, mode |-> "SingleLine"]

\* PatternMode, and a pattern in another mode.
PatternModes == {"SingleLine", "MultiLine", "Sequence"}
WithMode(pattern, mode) == [pattern EXCEPT !.mode = mode]

\* A variant of the loop of PatternEngine::new that drops a pattern whose regex
\* does not compile and goes on.
RECURSIVE CompileAll_SkipInvalid(_, _)
CompileAll_SkipInvalid(patterns, compiled) ==
    IF patterns = <<>> THEN Some(compiled)
    ELSE LET pattern == Head(patterns)
         IN  IF ~pattern.enabled \/ ~pattern.regex_ok
             THEN CompileAll_SkipInvalid(Tail(patterns), compiled)
             ELSE CompileAll_SkipInvalid(Tail(patterns), Append(compiled, pattern))

\* The loop of PatternEngine::new: disabled patterns are skipped, the first
\* enabled pattern whose regex does not compile ends it with Err (None), and
\* the others are pushed in order.
RECURSIVE CompileAll(_, _)
CompileAll(patterns, compiled) ==
    IF patterns = <<>> THEN Some(compiled)
    ELSE LET pattern == Head(patterns)
         IN  IF ~pattern.enabled THEN CompileAll(Tail(patterns), compiled)
             ELSE IF ~pattern.regex_ok THEN None
             ELSE CompileAll(Tail(patterns), Append(compiled, pattern))

\* pattern_map after the loop: by id, the last compiled pattern inserted.
PatternMap(compiled) ==
    [i \in {compiled[k].id : k \in 1..Len(compiled)} |->
        compiled[CHOOSE k \in 1..Len(compiled) :
                    /\ compiled[k].id = i
                    /\ \A m \in 1..Len(compiled) : compiled[m].id = i => m <= k]]

\* PatternEngine::new: None for Err, else the engine, which the model names n.
PatternEngineNew(patterns, n) ==
    LET compiled == CompileAll(patterns, <<>>)
    IN  IF compiled = None THEN None
        ELSE Some([id |-> n, patterns |-> Unwrap(compiled),
                   pattern_map |-> PatternMap(Unwrap(compiled))])

\* compiled_pattern.regex.captures_iter(line), by the number of matches: the
\* regex of a pattern of id 1 matches "hit" once, that of a pattern of id 2
\* twice, and neither matches another line.
CapturesIter(c, line) == IF line = "hit" THEN c.id ELSE 0

\* The detections process_line pushes for one match of the compiled pattern c.
DetectionsOf(e, c, line, n) ==
    [k \in 1..CapturesIter(c, line) |-> [line_number |-> n, engine |-> e, pattern |-> c]]

\* A variant of process_line that matches the patterns of every mode.
RECURSIVE ProcessFrom_AnyMode(_, _, _, _)
ProcessFrom_AnyMode(e, line, n, i) ==
    IF i > Len(e.patterns) THEN <<>>
    ELSE DetectionsOf(e, e.patterns[i], line, n) \o ProcessFrom_AnyMode(e, line, n, i + 1)

\* process_line, its loop over self.patterns from position i: the SingleLine arm
\* pushes a detection per match, the other arm does nothing.
RECURSIVE ProcessFrom(_, _, _, _)
ProcessFrom(e, line, n, i) ==
    IF i > Len(e.patterns) THEN <<>>
    ELSE (IF e.patterns[i].mode = "SingleLine"
          THEN DetectionsOf(e, e.patterns[i], line, n) ELSE <<>>)
         \o ProcessFrom(e, line, n, i + 1)

\* PatternEngine::process_line for the engine e: the detections of line n.
ProcessLine(e, line, n) == ProcessFrom(e, line, n, 1)

\* regex.captures_iter(&combined) for the joined lines of a context: the matches
\* of every line of it.
RECURSIVE CombinedMatches(_, _)
CombinedMatches(c, context) ==
    IF context = <<>> THEN 0
    ELSE CapturesIter(c, Head(context)) + CombinedMatches(c, Tail(context))

\* ContextProcessor::check_multiline_patterns over the patterns of the engine
\* from position i, with current_line = n: a MultiLine pattern gives a
\* detection per match in the context, the others give none.
RECURSIVE CheckMultilineFrom(_, _, _, _)
CheckMultilineFrom(e, context, n, i) ==
    IF i > Len(e.patterns) THEN <<>>
    ELSE (IF e.patterns[i].mode = "MultiLine"
          THEN [k \in 1..CombinedMatches(e.patterns[i], context) |->
                   [line_number |-> n, engine |-> e, pattern |-> e.patterns[i]]]
          ELSE <<>>)
         \o CheckMultilineFrom(e, context, n, i + 1)

\* A variant of analyze_text that also drives a ContextProcessor: each line is
\* pushed and the MultiLine patterns are checked against the lines so far.
RECURSIVE AnalyzeFrom_WithContext(_, _, _)
AnalyzeFrom_WithContext(eopt, text, n) ==
    IF eopt = None \/ n > Len(text) THEN <<>>
    ELSE ProcessLine(Unwrap(eopt), text[n], n - 1)
         \o CheckMultilineFrom(Unwrap(eopt), SubSeq(text, 1, n), n, 1)
         \o AnalyzeFrom_WithContext(eopt, text, n + 1)

\* The whole of analyze_text for a text under one engine (None: no engine loaded).
RECURSIVE AnalyzeFrom(_, _, _)
AnalyzeFrom(eopt, text, n) ==
    IF eopt = None \/ n > Len(text) THEN <<>>
    ELSE ProcessLine(Unwrap(eopt), text[n], n - 1) \o AnalyzeFrom(eopt, text, n + 1)

AnalyzeText(eopt, text) == AnalyzeFrom(eopt, text, 1)

\* The locals of a handler task.
HandlerIdle ==
    [op |-> "none",         \* the handler that runs in this task
     text |-> <<>>,          \* the text it analyses
     line |-> 0,             \* lines processed so far
     engine |-> None,        \* the engine slot as the read guard showed it first
     patterns |-> <<>>,      \* refresh: the patterns get_patterns() returned
     built |-> None,         \* refresh: the engine it has constructed
     dets |-> <<>>]          \* all_detections, then the diagnostics

\* A variant of taking the read guard that registers no reader.
ReadGuard_NotHeld(l, h) == l

\* self.pattern_engine.read().await: the guard is held by h.
ReadGuard(l, h) == [l EXCEPT !.readers = @ \cup {h}]

\* The read guard of h is dropped.
DropReadGuard(l, h) == [l EXCEPT !.readers = @ \ {h}]

\* What the sync model's variables are in the server model.
notServer == <<syncVars, diskVars, funVars>>

ServerInit ==
    /\ documents = [u \in Uris |-> NoDoc]
    /\ pattern_engine = None
    /\ pe_lock = LockFree
    /\ tagscout_service = FALSE
    /\ engines_built = 0
    /\ hpc = [h \in ServerTasks |-> "idle"]
    /\ hloc = [h \in ServerTasks |-> HandlerIdle]
    /\ published = [u \in Uris |-> [items |-> <<>>, by |-> "none"]]
    \* the sync service and the pure functions are not running
    /\ sync_mode = "OfflineOnly" /\ svc = "new" /\ client = None /\ cache = None
    /\ cache_file = FileAbsent /\ cm_lock = LockFree /\ last_sync = None /\ now = 0
    /\ backup_file = FileAbsent /\ temp_file = FileAbsent
    /\ spc = <<>> /\ sloc = <<>> /\ sres = <<>>
    /\ fin = <<>> /\ fout = <<>> /\ fphase = "idle"

\* analyze_and_publish is entered: its first log_message is awaited.
StartAnalysis(h, op, text) ==
    /\ hpc' = [hpc EXCEPT ![h] = "lock"]
    /\ hloc' = [hloc EXCEPT ![h] = [HandlerIdle EXCEPT !.op = op, !.text = text]]

\* did_open: the document is stored, then analyze_and_publish.
DidOpen(h, u) ==
    /\ hpc[h] = "idle"
    /\ documents' = [documents EXCEPT ![u] = Some(TextA)]
    /\ StartAnalysis(h, "did_open", TextA)
    /\ UNCHANGED <<pattern_engine, pe_lock, tagscout_service, engines_built, published>>
    /\ UNCHANGED notServer

\* did_change: only for a stored document; the text is replaced, then
\* analyze_and_publish.
DidChange(h, u) ==
    /\ hpc[h] = "idle"
    /\ IF documents[u] # NoDoc
       THEN /\ documents' = [documents EXCEPT ![u] = Some(TextB)]
            /\ StartAnalysis(h, "did_change", TextB)
       ELSE /\ documents' = documents
            /\ hpc' = [hpc EXCEPT ![h] = "done"]
            /\ hloc' = [hloc EXCEPT ![h] = [HandlerIdle EXCEPT !.op = "did_change"]]
    /\ UNCHANGED <<pattern_engine, pe_lock, tagscout_service, engines_built, published>>
    /\ UNCHANGED notServer

\* did_save: with a text, the document is stored, then analyze_and_publish;
\* without one, nothing.
DidSave(h, u) ==
    /\ hpc[h] = "idle"
    /\ \E with_text \in BOOLEAN :
         IF with_text
         THEN /\ documents' = [documents EXCEPT ![u] = Some(TextA)]
              /\ StartAnalysis(h, "did_save", TextA)
         ELSE /\ documents' = documents
              /\ hpc' = [hpc EXCEPT ![h] = "done"]
              /\ hloc' = [hloc EXCEPT ![h] = [HandlerIdle EXCEPT !.op = "did_save"]]
    /\ UNCHANGED <<pattern_engine, pe_lock, tagscout_service, engines_built, published>>
    /\ UNCHANGED notServer

\* did_close: the document is removed; the empty publish is awaited next.
DidClose(h, u) ==
    /\ hpc[h] = "idle"
    /\ documents' = [documents EXCEPT ![u] = NoDoc]
    /\ hpc' = [hpc EXCEPT ![h] = "publish"]
    /\ hloc' = [hloc EXCEPT ![h] = [HandlerIdle EXCEPT !.op = "did_close"]]
    /\ UNCHANGED <<pattern_engine, pe_lock, tagscout_service, engines_built, published>>
    /\ UNCHANGED notServer

\* textDocument/diagnostic (pull): the stored text is analysed; no document, an
\* empty report.
PullDiagnostic(h, u) ==
    /\ hpc[h] = "idle"
    /\ IF documents[u] # NoDoc
       THEN StartAnalysis(h, "diagnostic", Unwrap(documents[u]))
       ELSE /\ hpc' = [hpc EXCEPT ![h] = "done"]
            /\ hloc' = [hloc EXCEPT ![h] = [HandlerIdle EXCEPT !.op = "diagnostic"]]
    /\ UNCHANGED <<documents, pattern_engine, pe_lock, tagscout_service, engines_built,
                   published>>
    /\ UNCHANGED notServer

\* analyze_text: self.pattern_engine.read().await. Without an engine it returns
\* no diagnostics at once.
AnalyzeAcquire(h) ==
    /\ hpc[h] = "lock"
    /\ CanRead(pe_lock)
    /\ IF pattern_engine = None
       THEN /\ pe_lock' = pe_lock
            /\ hpc' = [hpc EXCEPT ![h] = IF hloc[h].op = "diagnostic" THEN "done" ELSE "publish"]
            /\ hloc' = hloc
       ELSE /\ pe_lock' = ReadGuard(pe_lock, h)
            /\ hpc' = [hpc EXCEPT ![h] = "lines"]
            /\ hloc' = [hloc EXCEPT ![h].engine = pattern_engine]
    /\ UNCHANGED <<documents, pattern_engine, tagscout_service, engines_built, published>>
    /\ UNCHANGED notServer

\* analyze_text reports its progress every 1000 lines; the documents of the
\* model are short, and the period is scaled to them.
ProgressEvery == 2

\* analyze_text after the loop over the lines: the detections become the
\* diagnostics and the guard is dropped.
AnalyzeReturn(h) ==
    /\ pe_lock' = DropReadGuard(pe_lock, h)
    /\ hpc' = [hpc EXCEPT ![h] = IF hloc[h].op = "diagnostic" THEN "done" ELSE "publish"]

\* analyze_text: one turn of the loop over the lines, on the engine behind the
\* guard, up to the log_message it awaits when processed % 1000 == 0.
AnalyzeLine(h) ==
    /\ hpc[h] = "lines"
    /\ LET n == hloc[h].line + 1
           dets == hloc[h].dets \o ProcessLine(Unwrap(pattern_engine), hloc[h].text[n], n - 1)
       IN  /\ hloc' = [hloc EXCEPT ![h].line = n, ![h].dets = dets]
           /\ IF n % ProgressEvery = 0
              THEN /\ pe_lock' = pe_lock
                   /\ hpc' = [hpc EXCEPT ![h] = "progress"]
              ELSE IF n = Len(hloc[h].text)
              THEN AnalyzeReturn(h)
              ELSE /\ pe_lock' = pe_lock
                   /\ hpc' = hpc
    /\ UNCHANGED <<documents, pattern_engine, tagscout_service, engines_built, published>>
    /\ UNCHANGED notServer

\* analyze_text: client.log_message(..).await returns, and the loop goes on.
LogProgress(h) ==
    /\ hpc[h] = "progress"
    /\ IF hloc[h].line = Len(hloc[h].text)
       THEN AnalyzeReturn(h)
       ELSE /\ pe_lock' = pe_lock
            /\ hpc' = [hpc EXCEPT ![h] = "lines"]
    /\ UNCHANGED <<documents, pattern_engine, tagscout_service, engines_built, hloc, published>>
    /\ UNCHANGED notServer

\* client.publish_diagnostics(uri, diagnostics): by analyze_and_publish, and by
\* did_close with the empty list.
Publish(h, u) ==
    /\ hpc[h] = "publish"
    /\ published' = [published EXCEPT ![u] = [items |-> hloc[h].dets, by |-> hloc[h].op]]
    /\ hpc' = [hpc EXCEPT ![h] = "done"]
    /\ UNCHANGED <<documents, pattern_engine, pe_lock, tagscout_service, engines_built, hloc>>
    /\ UNCHANGED notServer

\* The pattern lists get_patterns() returns in this model: none, one pattern,
\* one pattern and a disabled one, one pattern and one whose regex is invalid.
ServerPatternLists ==
    {<<>>,
     <<Pat(1, "a", TRUE, TRUE)>>,
     <<Pat(1, "a", TRUE, TRUE), Pat(2, "b", FALSE, TRUE)>>,
     <<Pat(1, "a", TRUE, TRUE), Pat(2, "b", TRUE, FALSE)>>}

\* sync() and get_patterns() as the server sees them: an error, or the patterns
\* of the cache.
SyncOutcomes ==
    {[ok |-> FALSE, patterns |-> <<>>]} \cup {[ok |-> TRUE, patterns |-> l] : l \in ServerPatternLists}

\* refresh_tagscout_patterns / initialize_tagscout up to the swap: for a list
\* that is not empty PatternEngine::new is called, and when it returns an engine
\* the write lock is awaited.
BuildEngine(h, op, outcome) ==
    LET engine == IF outcome.ok /\ outcome.patterns # <<>>
                  THEN PatternEngineNew(outcome.patterns, engines_built + 1) ELSE None
        loc == [HandlerIdle EXCEPT !.op = op, !.patterns = outcome.patterns]
    IN  IF IsSome(engine)
        THEN /\ engines_built' = engines_built + 1
             /\ hloc' = [hloc EXCEPT ![h] = [loc EXCEPT !.built = engine]]
             /\ hpc' = [hpc EXCEPT ![h] = "swap"]
        ELSE /\ engines_built' = engines_built
             /\ hloc' = [hloc EXCEPT ![h] = loc]
             /\ hpc' = [hpc EXCEPT ![h] =
                          IF op = "initialize_tagscout" /\ outcome.ok /\ outcome.patterns = <<>>
                          THEN "store" ELSE "done"]

\* logScout.refreshPatterns: refresh_tagscout_patterns on the stored service.
RefreshPatterns(h) ==
    /\ hpc[h] = "idle"
    /\ IF tagscout_service
       THEN \E outcome \in SyncOutcomes : BuildEngine(h, "refresh", outcome)
       ELSE BuildEngine(h, "refresh", [ok |-> FALSE, patterns |-> <<>>])
    /\ UNCHANGED <<documents, pattern_engine, pe_lock, tagscout_service, published>>
    /\ UNCHANGED notServer

\* initialize_tagscout, spawned by initialized(): SyncService::new, initialize(),
\* get_patterns() and PatternEngine::new.
InitializeTagscout ==
    /\ hpc[0] = "idle"
    /\ \E outcome \in SyncOutcomes : BuildEngine(0, "initialize_tagscout", outcome)
    /\ UNCHANGED <<documents, pattern_engine, pe_lock, tagscout_service, published>>
    /\ UNCHANGED notServer

\* A variant of the swap that publishes the diagnostics of the stored documents
\* under the new engine.
SwapEngine_Republish(h) ==
    /\ hpc[h] = "swap"
    /\ CanWrite(pe_lock)
    /\ pattern_engine' = hloc[h].built
    /\ published' = [u \in Uris |->
                       IF documents[u] # NoDoc
                       THEN [items |-> AnalyzeText(hloc[h].built, Unwrap(documents[u])),
                             by |-> hloc[h].op]
                       ELSE published[u]]
    /\ hpc' = [hpc EXCEPT ![h] = IF hloc[h].op = "initialize_tagscout" THEN "store" ELSE "done"]
    /\ UNCHANGED <<documents, pe_lock, tagscout_service, engines_built, hloc>>
    /\ UNCHANGED notServer

\* *self.pattern_engine.write().await = Some(engine)
SwapEngine(h) ==
    /\ hpc[h] = "swap"
    /\ CanWrite(pe_lock)
    /\ pattern_engine' = hloc[h].built
    /\ hpc' = [hpc EXCEPT ![h] = IF hloc[h].op = "initialize_tagscout" THEN "store" ELSE "done"]
    /\ UNCHANGED <<documents, pe_lock, tagscout_service, engines_built, hloc, published>>
    /\ UNCHANGED notServer

\* initialize_tagscout: *self.tagscout_service.write().await = Some(service)
StoreService ==
    /\ hpc[0] = "store"
    /\ tagscout_service' = TRUE
    /\ hpc' = [hpc EXCEPT ![0] = "done"]
    /\ UNCHANGED <<documents, pattern_engine, pe_lock, engines_built, hloc, published>>
    /\ UNCHANGED notServer

ServerNext ==
    \/ InitializeTagscout
    \/ StoreService
    \/ \E h \in ServerTasks : SwapEngine(h)
    \/ \E h \in Handlers :
         \/ \E u \in Uris :
              \/ DidOpen(h, u)
              \/ DidChange(h, u)
              \/ DidSave(h, u)
              \/ DidClose(h, u)
              \/ PullDiagnostic(h, u)
              \/ Publish(h, u)
         \/ RefreshPatterns(h)
         \/ AnalyzeAcquire(h)
         \/ AnalyzeLine(h)
         \/ LogProgress(h)

(***************************************************************************)
(*                 THE PURE FUNCTIONS OF THE PIPELINE                      *)
(***************************************************************************)

\* What the sync service and the server are while a pure function is checked.
notFun == <<syncVars, diskVars, serverVars>>

\* pattern_engine::Severity
Severities == {"Error", "Warning", "Info", "Hint"}

\* All sequences over S of length at most n.
SeqsUpTo(S, n) == UNION {[1..k -> S] : k \in 0..n}

(***************************************************************************)
(* deduplicate_detections                                                  *)
(***************************************************************************)

\* Bound: the longest detection list given to deduplicate_detections.
MaxDet == 3

\* The detections of the inputs: two lines, two column ranges on the first
\* line, every final severity, two patterns.
Detections ==
    {d \in [line_number : {0, 1}, column_range : {<<0, 4>>, <<5, 9>>},
            final_severity : Severities, pattern : {"p1", "p2"}] :
        d.line_number = 0 \/ d.column_range = <<0, 4>>}

\* The HashMap key of a detection.
DetectionKey(d) == <<d.line_number, d.column_range>>

DetectionKeys(D) == {DetectionKey(D[i]) : i \in 1..Len(D)}

\* grouped[k]: the detections of D with key k, in the order they were pushed.
Group(D, k) == SelectSeq(D, LAMBDA d : DetectionKey(d) = k)

\* A variant of the rank that puts Hint first.
SeverityRank_HintFirst(sev) ==
    CASE sev = "Error" -> 3 [] sev = "Warning" -> 2 [] sev = "Info" -> 1 [] sev = "Hint" -> 0

\* The sort key of the severity sort: Error > Warning > Info > Hint.
SeverityRank(sev) ==
    CASE sev = "Error" -> 0 [] sev = "Warning" -> 1 [] sev = "Info" -> 2 [] sev = "Hint" -> 3

SeverityKey == [d \in Detections |-> SeverityRank(d.final_severity)]

LineKey == [d \in Detections |-> d.line_number]

\* A variant of the insertion that puts x before the elements of equal key.
InsertByKey_BeforeEquals(sorted, x, key) ==
    LET n == Cardinality({i \in 1..Len(sorted) : key[sorted[i]] < key[x]})
    IN  SubSeq(sorted, 1, n) \o <<x>> \o SubSeq(sorted, n + 1, Len(sorted))

\* x put into the sorted list after every element whose key is not greater.
InsertByKey(sorted, x, key) ==
    LET n == Cardinality({i \in 1..Len(sorted) : key[sorted[i]] <= key[x]})
    IN  SubSeq(sorted, 1, n) \o <<x>> \o SubSeq(sorted, n + 1, Len(sorted))

\* Vec::sort_by_key: a stable sort.
RECURSIVE SortByKey(_, _)
SortByKey(s, key) ==
    IF s = <<>> THEN <<>>
    ELSE InsertByKey(SortByKey(SubSeq(s, 1, Len(s) - 1), key), s[Len(s)], key)

\* The orders in which a HashMap with the keys K can be iterated.
IterationOrders(K) ==
    {o \in [1..Cardinality(K) -> K] : \A i, j \in 1..Cardinality(K) : o[i] = o[j] => i = j}

\* deduplicate_detections, for the iteration order the HashMap happens to have.
DeduplicateDetections(D, order) ==
    LET highest(k) == LET group == Group(D, k)
                      IN  IF Len(group) = 1 THEN group[1]
                          ELSE Head(SortByKey(group, SeverityKey))
        deduplicated == [i \in 1..Len(order) |-> highest(order[i])]
    IN  SortByKey(deduplicated, LineKey)

DedupInit ==
    /\ fin \in SeqsUpTo(Detections, MaxDet)
    /\ fout = <<>>
    /\ fphase = "input"
    \* the sync service and the server are not running
    /\ sync_mode = "OfflineOnly" /\ svc = "new" /\ client = None /\ cache = None
    /\ cache_file = FileAbsent /\ cm_lock = LockFree /\ last_sync = None /\ now = 0
    /\ backup_file = FileAbsent /\ temp_file = FileAbsent
    /\ spc = <<>> /\ sloc = <<>> /\ sres = <<>>
    /\ documents = <<>> /\ pattern_engine = None /\ pe_lock = LockFree
    /\ tagscout_service = FALSE /\ engines_built = 0
    /\ hpc = <<>> /\ hloc = <<>> /\ published = <<>>

\* analyze_text, stage 5: all_detections = deduplicate_detections(all_detections)
Deduplicate ==
    /\ fphase = "input"
    /\ \E order \in IterationOrders(DetectionKeys(fin)) :
         fout' = DeduplicateDetections(fin, order)
    /\ fphase' = "deduplicated"
    /\ UNCHANGED fin
    /\ UNCHANGED notFun

DedupNext == Deduplicate

\* deduplicate_detections is run a second time on the same list; its HashMap is
\* a new one, with an iteration order of its own.
DeduplicateAgain ==
    /\ fphase = "deduplicated"
    /\ \E order \in IterationOrders(DetectionKeys(fin)) :
         fout' = [first |-> fout, second |-> DeduplicateDetections(fin, order)]
    /\ fphase' = "deduplicated_again"
    /\ UNCHANGED fin
    /\ UNCHANGED notFun

DedupTwiceNext == Deduplicate \/ DeduplicateAgain

(***************************************************************************)
(* evaluate_severity, process_line, detection_to_diagnostic                *)
(***************************************************************************)

\* Strings are sequences of characters.
Digits == {"0", "1", "2", "3", "4", "5", "6", "7", "8", "9"}

DigitValue ==
    "0" :> 0 @@ "1" :> 1 @@ "2" :> 2 @@ "3" :> 3 @@ "4" :> 4 @@
    "5" :> 5 @@ "6" :> 6 @@ "7" :> 7 @@ "8" :> 8 @@ "9" :> 9

\* The characters of a string.
Chars(s) == {s[i] : i \in 1..Len(s)}

RECURSIVE ParseDigits(_)
ParseDigits(s) ==
    IF s = <<>> THEN 0
    ELSE 10 * ParseDigits(SubSeq(s, 1, Len(s) - 1)) + DigitValue[s[Len(s)]]

\* str::parse::<f64>, on the strings of the inputs (digits, "a", "("): Ok exactly
\* for the strings of digits.
ParseF64(s) ==
    IF s # <<>> /\ Chars(s) \subseteq Digits THEN Some(ParseDigits(s)) ELSE None

\* str::contains
Contains(s, sub) ==
    \E i \in 0..(Len(s) - Len(sub)) : SubSeq(s, i + 1, i + Len(sub)) = sub

\* Regex::new, on strings of digits, letters and "(": an unclosed group does
\* not compile, the others are literals.
RegexNew(p) == IF "(" \in Chars(p) THEN None ELSE Some(p)

\* Regex::is_match of a literal: it occurs somewhere in the text.
RegexIsMatch(re, text) == Contains(text, re)

\* Bound: the longest condition_triggers list of a pattern.
MaxTrig == 2

\* pattern_engine::LogLevel, the levels of the inputs.
LogLevels == {"ERROR", "INFO"}

FieldNames == {"code", "state"}

FieldValueSet == {<<"5">>, <<"1", "0">>, <<"a">>}

\* SeverityTrigger
Trigger(f, op, v, sev) == [field |-> f, operator |-> op, value |-> v, severity |-> sev]

\* The condition triggers of the inputs.
TriggerSet ==
    {Trigger("code", "GreaterThan", <<"5">>, "Error"),
     Trigger("code", "LessThan", <<"1", "0">>, "Info"),
     Trigger("code", "Equals", <<"1", "0">>, "Warning"),
     Trigger("state", "Contains", <<"a">>, "Hint"),
     Trigger("code", "Regex", <<"1">>, "Error"),
     Trigger("state", "Regex", <<"(">>, "Warning"),
     Trigger("state", "GreaterThan", <<"a">>, "Error")}

\* The log_level_triggers maps of the inputs.
LogLevelTriggerMaps == {<<>>, [l \in {"ERROR"} |-> "Hint"]}

\* The field_values maps of the inputs.
FieldMaps == UNION {[S -> FieldValueSet] : S \in SUBSET FieldNames}

\* evaluate_severity: does the trigger's operator hold for the field's value.
TriggerMatches(trigger, value) ==
    LET v == ParseF64(value)
        threshold == ParseF64(trigger.value)
        re == RegexNew(trigger.value)
    IN  CASE trigger.operator = "Equals" -> value = trigger.value
          [] trigger.operator = "Contains" -> Contains(value, trigger.value)
          [] trigger.operator = "Regex" ->
                 IF IsSome(re) THEN RegexIsMatch(Unwrap(re), value) ELSE FALSE
          [] trigger.operator = "GreaterThan" ->
                 IF IsSome(v) /\ IsSome(threshold) THEN Unwrap(v) > Unwrap(threshold)
                 ELSE FALSE
          [] trigger.operator = "LessThan" ->
                 IF IsSome(v) /\ IsSome(threshold) THEN Unwrap(v) < Unwrap(threshold)
                 ELSE FALSE

\* evaluate_severity: the loop over condition_triggers, then the default.
RECURSIVE CheckTriggers(_, _, _)
CheckTriggers(triggers, field_values, default) ==
    IF triggers = <<>> THEN default
    ELSE LET trigger == Head(triggers)
         IN  IF trigger.field \in DOMAIN field_values
                /\ TriggerMatches(trigger, field_values[trigger.field])
             THEN trigger.severity
             ELSE CheckTriggers(Tail(triggers), field_values, default)

\* A variant of evaluate_severity that does not look at the log level.
EvaluateSeverity_NoLogLevel(pattern, log_level, field_values) ==
    CheckTriggers(pattern.condition_triggers, field_values, pattern.severity)

\* CompiledPattern::evaluate_severity
EvaluateSeverity(pattern, log_level, field_values) ==
    IF IsSome(log_level) /\ Unwrap(log_level) \in DOMAIN pattern.log_level_triggers
    THEN pattern.log_level_triggers[Unwrap(log_level)]
    ELSE CheckTriggers(pattern.condition_triggers, field_values, pattern.severity)

\* The DiagnosticSeverity of a Severity.
LspSeverity(sev) ==
    CASE sev = "Error" -> 1 [] sev = "Warning" -> 2 [] sev = "Info" -> 3 [] sev = "Hint" -> 4

\* detection_to_diagnostic: the severity of the diagnostic.
DetectionToDiagnostic(detection) ==
    [severity |-> LspSeverity(detection.pattern.severity)]

SeverityInit ==
    /\ fin \in [pattern : [severity : Severities,
                           log_level_triggers : LogLevelTriggerMaps,
                           condition_triggers : SeqsUpTo(TriggerSet, MaxTrig)],
                log_level : {None} \cup {Some(l) : l \in LogLevels},
                field_values : FieldMaps]
    /\ fout = <<>>
    /\ fphase = "input"
    \* the sync service and the server are not running
    /\ sync_mode = "OfflineOnly" /\ svc = "new" /\ client = None /\ cache = None
    /\ cache_file = FileAbsent /\ cm_lock = LockFree /\ last_sync = None /\ now = 0
    /\ backup_file = FileAbsent /\ temp_file = FileAbsent
    /\ spc = <<>> /\ sloc = <<>> /\ sres = <<>>
    /\ documents = <<>> /\ pattern_engine = None /\ pe_lock = LockFree
    /\ tagscout_service = FALSE /\ engines_built = 0
    /\ hpc = <<>> /\ hloc = <<>> /\ published = <<>>

\* process_line, for one capture of a SingleLine pattern: the final severity is
\* evaluated and the Detection is pushed.
ProcessCapture ==
    /\ fphase = "input"
    /\ fout' = [pattern |-> fin.pattern,
                log_level |-> fin.log_level,
                final_severity |-> EvaluateSeverity(fin.pattern, fin.log_level,
                                                    fin.field_values),
                field_values |-> fin.field_values]
    /\ fphase' = "detection"
    /\ UNCHANGED fin
    /\ UNCHANGED notFun

\* analyze_text, stage 7: the detection becomes an LSP diagnostic.
Materialize ==
    /\ fphase = "detection"
    /\ fout' = [detection |-> fout, diagnostic |-> DetectionToDiagnostic(fout)]
    /\ fphase' = "diagnostic"
    /\ UNCHANGED fin
    /\ UNCHANGED notFun

SeverityNext == ProcessCapture \/ Materialize

(***************************************************************************)
(* substitute_template                                                     *)
(***************************************************************************)

\* Bound: the longest template, in tokens (placeholders and literals).
MaxTok == 2

\* The field names of the templates.
PlaceholderNames == {"A", "B"}

\* [0-9A-Za-z_], the characters of a capture reference in a replacement string.
WordChars == Digits \cup {"A", "B", "x", "v", "w", "_"}

Spaces(n) == [i \in 1..n |-> " "]

\* The text of a placeholder: {{NAME}}, {{ NAME}}, {{NAME }}, {{ NAME }}.
Placeholder(name, ls, rs) ==
    <<"{", "{">> \o Spaces(ls) \o <<name>> \o Spaces(rs) \o <<"}", "}">>

\* The tokens of the templates: a placeholder in each spacing variant, or a
\* literal (name "").
TemplateTokens ==
    {[name |-> n, text |-> Placeholder(n, ls, rs)] :
        n \in PlaceholderNames, ls \in 0..1, rs \in 0..1}
    \cup {[name |-> "", text |-> <<"x">>]}

\* The template string of a token list.
RECURSIVE TemplateText(_)
TemplateText(tokens) ==
    IF tokens = <<>> THEN <<>> ELSE Head(tokens).text \o TemplateText(Tail(tokens))

\* The values of the inputs: plain text, text with "$", text with a placeholder.
ValuesOfA == {<<"v">>, <<"$", "0">>, <<"$", "v">>, <<"$", "$">>}
ValuesOfB == {<<"w">>, Placeholder("A", 0, 0)}

\* The field_values maps of the inputs.
SubstitutionMaps ==
    {<<>>}
    \cup {[n \in {"A"} |-> a] : a \in ValuesOfA}
    \cup {[n \in {"B"} |-> b] : b \in ValuesOfB}
    \cup {[n \in {"A", "B"} |-> IF n = "A" THEN p[1] ELSE p[2]] : p \in ValuesOfA \X ValuesOfB}

\* The first position at or after i that holds no space (Len(s) + 1 if none).
RECURSIVE SkipSpaces(_, _)
SkipSpaces(s, i) ==
    IF i <= Len(s) /\ s[i] = " " THEN SkipSpaces(s, i + 1) ELSE i

\* Where a match of \{\{\s*NAME\s*\}\} that starts at i ends (the position
\* after it), 0 when there is none.
MatchEnd(s, i, name) ==
    IF ~(i + 1 <= Len(s) /\ s[i] = "{" /\ s[i + 1] = "{") THEN 0
    ELSE LET b == SkipSpaces(s, i + 2)
         IN  IF ~(b <= Len(s) /\ s[b] = name) THEN 0
             ELSE LET d == SkipSpaces(s, b + 1)
                  IN  IF d + 1 <= Len(s) /\ s[d] = "}" /\ s[d + 1] = "}" THEN d + 2 ELSE 0

\* The length of the longest prefix of s made of word characters.
RECURSIVE WordPrefix(_)
WordPrefix(s) ==
    IF s # <<>> /\ Head(s) \in WordChars THEN 1 + WordPrefix(Tail(s)) ELSE 0

\* The position of the first "}" of s, 0 when there is none.
RECURSIVE FirstClose(_, _)
FirstClose(s, i) ==
    IF i > Len(s) THEN 0 ELSE IF s[i] = "}" THEN i ELSE FirstClose(s, i + 1)

\* What a capture reference stands for: the pattern has no groups, so only
\* group 0, the whole match, is not empty.
CaptureText(ref, whole) ==
    IF ref # <<>> /\ Chars(ref) \subseteq Digits /\ ParseDigits(ref) = 0 THEN whole ELSE <<>>

\* The regex crate's expansion of a replacement string for one match: $$ is a
\* dollar, $name and ${name} are capture references, any other $ stays.
RECURSIVE ExpandStr(_, _)
ExpandStr(rep, whole) ==
    IF rep = <<>> THEN <<>>
    ELSE IF Head(rep) # "$" THEN <<Head(rep)>> \o ExpandStr(Tail(rep), whole)
    ELSE IF Len(rep) >= 2 /\ rep[2] = "$"
         THEN <<"$">> \o ExpandStr(SubSeq(rep, 3, Len(rep)), whole)
    ELSE IF Len(rep) >= 2 /\ rep[2] = "{"
         THEN LET c == FirstClose(rep, 3)
              IN  IF c = 0 THEN <<"$">> \o ExpandStr(Tail(rep), whole)
                  ELSE CaptureText(SubSeq(rep, 3, c - 1), whole)
                       \o ExpandStr(SubSeq(rep, c + 1, Len(rep)), whole)
    ELSE LET n == WordPrefix(Tail(rep))
         IN  IF n = 0 THEN <<"$">> \o ExpandStr(Tail(rep), whole)
             ELSE CaptureText(SubSeq(rep, 2, n + 1), whole)
                  \o ExpandStr(SubSeq(rep, n + 2, Len(rep)), whole)

\* Regex::replace_all(text, rep) from position i on, for the pattern of name.
RECURSIVE ReplaceAllFrom(_, _, _, _)
ReplaceAllFrom(s, i, name, rep) ==
    IF i > Len(s) THEN <<>>
    ELSE LET e == MatchEnd(s, i, name)
         IN  IF e = 0 THEN <<s[i]>> \o ReplaceAllFrom(s, i + 1, name, rep)
             ELSE ExpandStr(rep, SubSeq(s, i, e - 1)) \o ReplaceAllFrom(s, e, name, rep)

\* substitute_template: the loop over field_values, in the order the HashMap
\* happens to iterate.
RECURSIVE SubstituteFrom(_, _, _, _)
SubstituteFrom(result, field_values, order, i) ==
    IF i > Len(order) THEN result
    ELSE SubstituteFrom(ReplaceAllFrom(result, 1, order[i], field_values[order[i]]),
                        field_values, order, i + 1)

SubstituteTemplate(template, field_values, order) ==
    SubstituteFrom(template, field_values, order, 1)

SubstInit ==
    /\ fin \in [tokens : SeqsUpTo(TemplateTokens, MaxTok), field_values : SubstitutionMaps]
    /\ fout = <<>>
    /\ fphase = "input"
    \* the sync service and the server are not running
    /\ sync_mode = "OfflineOnly" /\ svc = "new" /\ client = None /\ cache = None
    /\ cache_file = FileAbsent /\ cm_lock = LockFree /\ last_sync = None /\ now = 0
    /\ backup_file = FileAbsent /\ temp_file = FileAbsent
    /\ spc = <<>> /\ sloc = <<>> /\ sres = <<>>
    /\ documents = <<>> /\ pattern_engine = None /\ pe_lock = LockFree
    /\ tagscout_service = FALSE /\ engines_built = 0
    /\ hpc = <<>> /\ hloc = <<>> /\ published = <<>>

\* detection_to_diagnostic: Self::substitute_template(&template, &detection.field_values)
Substitute ==
    /\ fphase = "input"
    /\ \E order \in IterationOrders(DOMAIN fin.field_values) :
         fout' = SubstituteTemplate(TemplateText(fin.tokens), fin.field_values, order)
    /\ fphase' = "substituted"
    /\ UNCHANGED fin
    /\ UNCHANGED notFun

\* substitute_template applied to its own result, with the same field_values.
SubstituteAgain ==
    /\ fphase = "substituted"
    /\ \E order \in IterationOrders(DOMAIN fin.field_values) :
         fout' = [first |-> fout,
                  second |-> SubstituteTemplate(fout, fin.field_values, order)]
    /\ fphase' = "substituted_again"
    /\ UNCHANGED fin
    /\ UNCHANGED notFun

SubstNext == Substitute \/ SubstituteAgain

(***************************************************************************)
(* PatternConverter::convert                                               *)
(***************************************************************************)

\* The annotations convert is applied to.
ConvertAnnotations ==
    [id : {1, 2}, production : BOOLEAN, content : BOOLEAN, regex : {"none", "bad", "ok"}]

ConvertInit ==
    /\ fin \in [config : ConverterConfigs, annotation : ConvertAnnotations]
    /\ fout = <<>>
    /\ fphase = "input"
    \* the sync service and the server are not running
    /\ sync_mode = "OfflineOnly" /\ svc = "new" /\ client = None /\ cache = None
    /\ cache_file = FileAbsent /\ cm_lock = LockFree /\ last_sync = None /\ now = 0
    /\ backup_file = FileAbsent /\ temp_file = FileAbsent
    /\ spc = <<>> /\ sloc = <<>> /\ sres = <<>>
    /\ documents = <<>> /\ pattern_engine = None /\ pe_lock = LockFree
    /\ tagscout_service = FALSE /\ engines_built = 0
    /\ hpc = <<>> /\ hloc = <<>> /\ published = <<>>

\* converter.convert(&annotation, product)
ConvertOne ==
    /\ fphase = "input"
    /\ fout' = ConvertWith(fin.config, fin.annotation)
    /\ fphase' = "converted"
    /\ UNCHANGED fin
    /\ UNCHANGED notFun

ConvertNext == ConvertOne

(***************************************************************************)
(* PatternCache::normalize_template_fields, add_pattern                    *)
(***************************************************************************)

MaxNormTok == 2     \* the longest annotation text, in tokens

\* \s and [A-Za-z_] over the characters of the model; [A-Za-z0-9_] is WordChars.
WhiteSpace == {" ", "\t"}
NameStartChars == WordChars \ Digits

\* The first position at or after i that holds no whitespace.
RECURSIVE SkipWhite(_, _)
SkipWhite(s, i) ==
    IF i <= Len(s) /\ s[i] \in WhiteSpace THEN SkipWhite(s, i + 1) ELSE i

\* The first position at or after i that holds no character of [A-Za-z0-9_].
RECURSIVE SkipName(_, _)
SkipName(s, i) ==
    IF i <= Len(s) /\ s[i] \in WordChars THEN SkipName(s, i + 1) ELSE i

\* The match of \{\{\s*([A-Za-z_][A-Za-z0-9_]*)\s*\}\} that starts at i: the
\* position after it and group 1, or None.
NormalizeMatch(s, i) ==
    IF ~(i + 1 <= Len(s) /\ s[i] = "{" /\ s[i + 1] = "{") THEN None
    ELSE LET b == SkipWhite(s, i + 2)
         IN  IF ~(b <= Len(s) /\ s[b] \in NameStartChars) THEN None
             ELSE LET c == SkipName(s, b + 1)
                      d == SkipWhite(s, c)
                  IN  IF d + 1 <= Len(s) /\ s[d] = "}" /\ s[d + 1] = "}"
                      THEN Some([end |-> d + 2, group1 |-> SubSeq(s, b, c - 1)])
                      ELSE None

\* A variant of the replacement that puts no space before the name.
NormalizeReplacement_NoLeftSpace(group1) ==
    <<"{", "{">> \o group1 \o <<" ", "}", "}">>

\* The replacement "{{ $1 }}" expanded for one match: $1 ends at the space
\* that follows it and stands for group 1.
NormalizeReplacement(group1) ==
    <<"{", "{", " ">> \o group1 \o <<" ", "}", "}">>

\* re.replace_all(template, "{{ $1 }}"): the matches are taken from left to
\* right, each search starting where the last match ended.
RECURSIVE NormalizeFrom(_, _)
NormalizeFrom(s, i) ==
    IF i > Len(s) THEN <<>>
    ELSE LET m == NormalizeMatch(s, i)
         IN  IF IsSome(m)
             THEN NormalizeReplacement(Unwrap(m).group1) \o NormalizeFrom(s, Unwrap(m).end)
             ELSE <<s[i]>> \o NormalizeFrom(s, i + 1)

\* PatternCache::normalize_template_fields
NormalizeTemplateFields(template) == NormalizeFrom(template, 1)

\* add_pattern, as far as the template fields go: the pattern it stores.
StoredPattern(pattern) ==
    [pattern EXCEPT !.annotation = NormalizeTemplateFields(@),
                    !.category = NormalizeTemplateFields(@)]

\* The names and the inner whitespace of the placeholders of the inputs.
NormalizeNames == {<<"A">>, <<"_", "1">>}
NormalizePads == {<<>>, <<" ">>, <<" ", "\t">>}

\* The tokens of the input texts: a placeholder in every spacing, or a literal:
\* text, a lone brace, a space, braces around a name that starts with a digit,
\* braces around two names.
NormalizeTokens ==
    {<<"{", "{">> \o l \o n \o r \o <<"}", "}">> :
        n \in NormalizeNames, l \in NormalizePads, r \in NormalizePads}
    \cup {<<"x">>, <<"{">>, <<"}">>, <<" ">>,
          <<"{", "{", "1", "A", "}", "}">>, <<"{", "{", "A", " ", "B", "}", "}">>}

\* The text of a token list.
RECURSIVE TokensText(_)
TokensText(tokens) ==
    IF tokens = <<>> THEN <<>> ELSE Head(tokens) \o TokensText(Tail(tokens))

\* The categories of the inputs.
NormalizeCategories ==
    {<<>>, <<"{", "{", "A", "}", "}">>, <<"{", "{", " ", "A", " ", "}", "}">>}

NormalizeInit ==
    /\ fin \in {[annotation |-> TokensText(ts), category |-> c] :
                  ts \in SeqsUpTo(NormalizeTokens, MaxNormTok), c \in NormalizeCategories}
    /\ fout = <<>>
    /\ fphase = "input"
    \* the sync service and the server are not running
    /\ sync_mode = "OfflineOnly" /\ svc = "new" /\ client = None /\ cache = None
    /\ cache_file = FileAbsent /\ cm_lock = LockFree /\ last_sync = None /\ now = 0
    /\ backup_file = FileAbsent /\ temp_file = FileAbsent
    /\ spc = <<>> /\ sloc = <<>> /\ sres = <<>>
    /\ documents = <<>> /\ pattern_engine = None /\ pe_lock = LockFree
    /\ tagscout_service = FALSE /\ engines_built = 0
    /\ hpc = <<>> /\ hloc = <<>> /\ published = <<>>

\* cache.add_pattern(annotation, pattern)
AddToCache ==
    /\ fphase = "input"
    /\ fout' = [stored |-> StoredPattern(fin), again |-> fin]
    /\ fphase' = "added"
    /\ UNCHANGED fin
    /\ UNCHANGED notFun

\* The stored pattern is added once more.
AddAgain ==
    /\ fphase = "added"
    /\ fout' = [fout EXCEPT !.again = StoredPattern(fout.stored)]
    /\ fphase' = "added_again"
    /\ UNCHANGED fin
    /\ UNCHANGED notFun

NormalizeNext == AddToCache \/ AddAgain

(***************************************************************************)
(* PatternEngine::new                                                      *)
(***************************************************************************)

MaxPat == 2         \* patterns in the list given to PatternEngine::new

\* The patterns of the lists: two ids, and two names to tell patterns of one
\* id apart.
EnginePatterns ==
    {Pat(i, nm, en, rx) : i \in {1, 2}, nm \in {"a", "b"}, en \in BOOLEAN, rx \in BOOLEAN}

EngineInit ==
    /\ fin \in SeqsUpTo(EnginePatterns, MaxPat)
    /\ fout = <<>>
    /\ fphase = "input"
    \* the sync service and the server are not running
    /\ sync_mode = "OfflineOnly" /\ svc = "new" /\ client = None /\ cache = None
    /\ cache_file = FileAbsent /\ cm_lock = LockFree /\ last_sync = None /\ now = 0
    /\ backup_file = FileAbsent /\ temp_file = FileAbsent
    /\ spc = <<>> /\ sloc = <<>> /\ sres = <<>>
    /\ documents = <<>> /\ pattern_engine = None /\ pe_lock = LockFree
    /\ tagscout_service = FALSE /\ engines_built = 0
    /\ hpc = <<>> /\ hloc = <<>> /\ published = <<>>

\* PatternEngine::new(patterns)
EngineNew ==
    /\ fphase = "input"
    /\ fout' = PatternEngineNew(fin, 1)
    /\ fphase' = "built"
    /\ UNCHANGED fin
    /\ UNCHANGED notFun

EngineNext == EngineNew

\* The line numbers process_line is called with.
MaxLineNo == 1

\* The patterns of the lists given to the engine whose process_line is called:
\* two ids, enabled or not, in every mode.
ModePatterns ==
    {WithMode(Pat(i, "a", en, TRUE), m) : i \in {1, 2}, en \in BOOLEAN, m \in PatternModes}

ProcessInit ==
    /\ fin \in [patterns : SeqsUpTo(ModePatterns, MaxPat), line : {"hit", "miss"},
                line_number : 0..MaxLineNo]
    /\ fout = [engine |-> None, detections |-> <<>>]
    /\ fphase = "input"
    \* the sync service and the server are not running
    /\ sync_mode = "OfflineOnly" /\ svc = "new" /\ client = None /\ cache = None
    /\ cache_file = FileAbsent /\ cm_lock = LockFree /\ last_sync = None /\ now = 0
    /\ backup_file = FileAbsent /\ temp_file = FileAbsent
    /\ spc = <<>> /\ sloc = <<>> /\ sres = <<>>
    /\ documents = <<>> /\ pattern_engine = None /\ pe_lock = LockFree
    /\ tagscout_service = FALSE /\ engines_built = 0
    /\ hpc = <<>> /\ hloc = <<>> /\ published = <<>>

\* PatternEngine::new(patterns)
ProcessBuild ==
    /\ fphase = "input"
    /\ fout' = [fout EXCEPT !.engine = PatternEngineNew(fin.patterns, 1)]
    /\ fphase' = "built"
    /\ UNCHANGED fin
    /\ UNCHANGED notFun

\* engine.process_line(line, line_number)
ProcessCall ==
    /\ fphase = "built"
    /\ IsSome(fout.engine)
    /\ fout' = [fout EXCEPT !.detections =
                   ProcessLine(Unwrap(fout.engine), fin.line, fin.line_number)]
    /\ fphase' = "processed"
    /\ UNCHANGED fin
    /\ UNCHANGED notFun

ProcessNext == ProcessBuild \/ ProcessCall

(***************************************************************************)
(* ContextProcessor                                                        *)
(***************************************************************************)

MaxWindow == 2      \* the largest max_window of a ContextProcessor
MaxPush == 3        \* push_line calls between two resets

\* The lines pushed.
ContextLines == {"a", "b"}

\* ContextProcessor::new(max_window)
NewContextProcessor(max_window) ==
    [context_buffer |-> <<>>, max_window |-> max_window, current_line |-> 0]

\* push_line: the front is popped when the buffer holds max_window lines or
\* more (pop_front on an empty buffer does nothing), then the line is pushed.
PushedLine(p, line) ==
    LET kept == IF Len(p.context_buffer) >= p.max_window /\ p.context_buffer # <<>>
                THEN Tail(p.context_buffer) ELSE p.context_buffer
    IN  [p EXCEPT !.context_buffer = Append(kept, line), !.current_line = @ + 1]

\* A variant of get_context that takes the lines from the front.
GetContext_FromFront(p, lines) ==
    SubSeq(p.context_buffer, 1, Min(lines, Len(p.context_buffer)))

\* get_context: skip(len.saturating_sub(lines)) of the buffer.
GetContext(p, lines) ==
    LET len == Len(p.context_buffer)
        start == IF len >= lines THEN len - lines ELSE 0
    IN  SubSeq(p.context_buffer, start + 1, len)

\* reset
ResetProcessor(p) == [p EXCEPT !.context_buffer = <<>>, !.current_line = 0]

\* fin is the processor; fout holds the lines pushed since the last reset and
\* the last get_context call.
ContextInit ==
    /\ fin \in {NewContextProcessor(w) : w \in 0..MaxWindow}
    /\ fout = [pushed |-> <<>>, lines |-> 0, context |-> <<>>]
    /\ fphase = "new"
    \* the sync service and the server are not running
    /\ sync_mode = "OfflineOnly" /\ svc = "new" /\ client = None /\ cache = None
    /\ cache_file = FileAbsent /\ cm_lock = LockFree /\ last_sync = None /\ now = 0
    /\ backup_file = FileAbsent /\ temp_file = FileAbsent
    /\ spc = <<>> /\ sloc = <<>> /\ sres = <<>>
    /\ documents = <<>> /\ pattern_engine = None /\ pe_lock = LockFree
    /\ tagscout_service = FALSE /\ engines_built = 0
    /\ hpc = <<>> /\ hloc = <<>> /\ published = <<>>

\* processor.push_line(line)
PushLine ==
    /\ fin.current_line < MaxPush
    /\ \E line \in ContextLines :
         /\ fin' = PushedLine(fin, line)
         /\ fout' = [fout EXCEPT !.pushed = Append(@, line)]
    /\ fphase' = "pushed"
    /\ UNCHANGED notFun

\* processor.get_context(lines)
GetContextCall ==
    /\ \E lines \in 0..(MaxWindow + 1) :
         fout' = [fout EXCEPT !.lines = lines, !.context = GetContext(fin, lines)]
    /\ fphase' = "got"
    /\ UNCHANGED fin
    /\ UNCHANGED notFun

\* processor.reset()
ResetCall ==
    /\ fin' = ResetProcessor(fin)
    /\ fout' = [fout EXCEPT !.pushed = <<>>]
    /\ fphase' = "reset"
    /\ UNCHANGED notFun

ContextNext == PushLine \/ GetContextCall \/ ResetCall

(***************************************************************************)
(* SyncService::start_auto_refresh                                         *)
(***************************************************************************)

MaxInterval == 2    \* the longest auto_refresh_interval, in clock ticks
MaxCount == 2       \* the counters of syncs and of logged failures stop here

\* A variant of the loop that ends when sync() fails.
AfterSync_BreakOnError(outcome) == IF outcome = "err" THEN "ended" ELSE "ticking"

\* The match on the result of self.sync(): both arms log and fall through to
\* the next turn of the loop, at ticker.tick().await.
AfterSync(outcome) == "ticking"

\* fin is the service as the loop sees it: its configuration and whether the
\* server has handled shutdown. fout is the spawned task: the time since the
\* ticker last fired, the syncs started, the failures logged, the last result.
RefreshInit ==
    /\ fin \in [auto_refresh_interval : {None} \cup {Some(n) : n \in 1..MaxInterval},
                shutdown : {FALSE}]
    /\ fout = [elapsed |-> 0, syncs |-> 0, logged_errors |-> 0, last |-> "none"]
    /\ fphase = "created"
    \* the sync service is seen through its sync() results, the server is not running
    /\ sync_mode = "OfflineOnly" /\ svc = "new" /\ client = None /\ cache = None
    /\ cache_file = FileAbsent /\ cm_lock = LockFree /\ last_sync = None /\ now = 0
    /\ backup_file = FileAbsent /\ temp_file = FileAbsent
    /\ spc = <<>> /\ sloc = <<>> /\ sres = <<>>
    /\ documents = <<>> /\ pattern_engine = None /\ pe_lock = LockFree
    /\ tagscout_service = FALSE /\ engines_built = 0
    /\ hpc = <<>> /\ hloc = <<>> /\ published = <<>>

\* start_auto_refresh: with an interval the loop is spawned, and the first tick
\* of a tokio interval completes at once; without one nothing is spawned.
StartAutoRefresh ==
    /\ fphase = "created"
    /\ IF IsSome(fin.auto_refresh_interval)
       THEN /\ fphase' = "ticking"
            /\ fout' = [fout EXCEPT !.elapsed = Unwrap(fin.auto_refresh_interval)]
       ELSE /\ fphase' = "returned"
            /\ fout' = fout
    /\ UNCHANGED fin
    /\ UNCHANGED notFun

\* Time passes, while the loop waits for the ticker and while it syncs.
ClockAdvance ==
    /\ fphase \in {"ticking", "syncing"}
    /\ fout.elapsed < Unwrap(fin.auto_refresh_interval)
    /\ fout' = [fout EXCEPT !.elapsed = @ + 1]
    /\ UNCHANGED <<fin, fphase>>
    /\ UNCHANGED notFun

\* ticker.tick().await completes and self.sync() is called.
TickerFires ==
    /\ fphase = "ticking"
    /\ fout.elapsed >= Unwrap(fin.auto_refresh_interval)
    /\ fout' = [fout EXCEPT !.elapsed = 0, !.syncs = Min(@ + 1, MaxCount)]
    /\ fphase' = "syncing"
    /\ UNCHANGED fin
    /\ UNCHANGED notFun

\* self.sync().await returns Ok or Err; the Err arm logs the failure.
SyncReturns ==
    /\ fphase = "syncing"
    /\ \E outcome \in {"ok", "err"} :
         /\ fout' = [fout EXCEPT !.last = outcome,
                                 !.logged_errors = IF outcome = "err"
                                                   THEN Min(@ + 1, MaxCount) ELSE @]
         /\ fphase' = AfterSync(outcome)
    /\ UNCHANGED fin
    /\ UNCHANGED notFun

\* LogScoutServer::shutdown: it logs and returns Ok; the spawned loop is not told.
Shutdown ==
    /\ ~fin.shutdown
    /\ fin' = [fin EXCEPT !.shutdown = TRUE]
    /\ UNCHANGED <<fout, fphase>>
    /\ UNCHANGED notFun

RefreshNext ==
    \/ StartAutoRefresh
    \/ ClockAdvance
    \/ TickerFires
    \/ SyncReturns
    \/ Shutdown

(***************************************************************************)
(*                         PatternCache::merge                             *)
(***************************************************************************)

MaxMergeIds == 2
MaxCachedAt == 1

MergeIds == 1..MaxMergeIds

\* A CachedPattern, by its cached_at and by the cache it came from.
MergeEntries(origin) == [cached_at : 0..MaxCachedAt, origin : {origin}]

\* The caches merge is called with: any entries, metadata up to date.
MergeCaches(origin) ==
    UNION { { [patterns |-> ps, last_updated |-> 0, pattern_count |-> Cardinality(ids)] :
                ps \in [ids -> MergeEntries(origin)] } : ids \in SUBSET MergeIds }

\* A variant of the loop body in which the other entry also wins a tie.
MergeOne_OtherWinsTies(c, id, other_pattern) ==
    LET insert == [c EXCEPT !.patterns =
                      [i \in DOMAIN c.patterns \cup {id} |->
                          IF i = id THEN other_pattern ELSE c.patterns[i]]]
    IN  IF id \in DOMAIN c.patterns
        THEN IF other_pattern.cached_at >= c.patterns[id].cached_at THEN insert ELSE c
        ELSE insert

\* merge, the body of its loop for one (id, other_pattern) of other.patterns.
MergeOne(c, id, other_pattern) ==
    LET insert == [c EXCEPT !.patterns =
                      [i \in DOMAIN c.patterns \cup {id} |->
                          IF i = id THEN other_pattern ELSE c.patterns[i]]]
    IN  IF id \in DOMAIN c.patterns
        THEN IF other_pattern.cached_at > c.patterns[id].cached_at THEN insert ELSE c
        ELSE insert

\* merge, its loop from position i of the order in which other.patterns iterates.
RECURSIVE MergeFrom(_, _, _, _)
MergeFrom(c, other, order, i) ==
    IF i > Len(order) THEN c
    ELSE MergeFrom(MergeOne(c, order[i], other.patterns[order[i]]), other, order, i + 1)

\* PatternCache::merge at time t.
MergeCache(c, other, order, t) == UpdateMetadata(MergeFrom(c, other, order, 1), t)

MergeInit ==
    /\ fin \in [self : MergeCaches("self"), other : MergeCaches("other")]
    /\ fout = <<>>
    /\ fphase = "input"
    \* the sync service and the server are not running
    /\ sync_mode = "OfflineOnly" /\ svc = "new" /\ client = None /\ cache = None
    /\ cache_file = FileAbsent /\ cm_lock = LockFree /\ last_sync = None /\ now = 0
    /\ backup_file = FileAbsent /\ temp_file = FileAbsent
    /\ spc = <<>> /\ sloc = <<>> /\ sres = <<>>
    /\ documents = <<>> /\ pattern_engine = None /\ pe_lock = LockFree
    /\ tagscout_service = FALSE /\ engines_built = 0
    /\ hpc = <<>> /\ hloc = <<>> /\ published = <<>>

\* self.merge(other)
Merge ==
    /\ fphase = "input"
    /\ \E order \in IterationOrders(DOMAIN fin.other.patterns), t \in 0..MaxCachedAt :
         fout' = MergeCache(fin.self, fin.other, order, t)
    /\ fphase' = "merged"
    /\ UNCHANGED fin /\ UNCHANGED notFun

MergeNext == Merge

(***************************************************************************)
(* CompiledPattern::detect_log_level                                       *)
(***************************************************************************)

\* Bound: the number of fragments a line is made of.
MaxFragments == 2

\* The lines: concatenations of fragments of level tokens, in any order, with a
\* lower-case word and a space.
LineFragments ==
    {<<"F", "A", "T", "A", "L">>,
     <<"C", "R", "I", "T">>,
     <<"I", "C", "A", "L">>,
     <<"E", "R", "R">>,
     <<"O", "R">>,
     <<"W", "A", "R", "N">>,
     <<"I", "N", "G">>,
     <<"I", "N", "F", "O">>,
     <<"D", "B", "G">>,
     <<"e", "r", "r", "o", "r">>,
     <<" ">>}

RECURSIVE Concat(_)
Concat(ws) == IF ws = <<>> THEN <<>> ELSE Head(ws) \o Concat(Tail(ws))

\* str::to_uppercase on the letters of the lines.
UpperChar(c) ==
    CASE c = "e" -> "E" [] c = "r" -> "R" [] c = "o" -> "O" [] OTHER -> c

ToUppercase(s) == [i \in 1..Len(s) |-> UpperChar(s[i])]

\* LogLevel::from_str
LogLevelFromStr(s) ==
    LET u == ToUppercase(s)
    IN  CASE u \in {<<"F", "A", "T", "A", "L">>, <<"C", "R", "I", "T", "I", "C", "A", "L">>, <<"C", "R", "I", "T">>} -> Some("FATAL")
      [] u \in {<<"E", "R", "R", "O", "R">>, <<"E", "R", "R">>} -> Some("ERROR")
      [] u \in {<<"W", "A", "R", "N">>, <<"W", "A", "R", "N", "I", "N", "G">>} -> Some("WARN")
      [] u \in {<<"I", "N", "F", "O">>, <<"I", "N", "F", "O", "R", "M", "A", "T", "I", "O", "N">>} -> Some("INFO")
      [] u \in {<<"D", "E", "B", "U", "G">>, <<"D", "B", "G">>} -> Some("DEBUG")
      [] u \in {<<"T", "R", "A", "C", "E">>, <<"T", "R", "C">>} -> Some("TRACE")
      [] u \in {<<"V", "E", "R", "B", "O", "S", "E">>, <<"V", "E", "R", "B">>, <<"V">>} -> Some("VERBOSE")
          [] OTHER -> None

\* A variant of the list that tries ERROR first and WARNING before WARN.
LevelPatterns_ErrorFirst ==
    <<<<"E", "R", "R", "O", "R">>,
      <<"E", "R", "R">>,
      <<"F", "A", "T", "A", "L">>,
      <<"C", "R", "I", "T", "I", "C", "A", "L">>,
      <<"C", "R", "I", "T">>,
      <<"W", "A", "R", "N", "I", "N", "G">>,
      <<"W", "A", "R", "N">>,
      <<"I", "N", "F", "O">>,
      <<"I", "N", "F", "O", "R", "M", "A", "T", "I", "O", "N">>,
      <<"D", "E", "B", "U", "G">>,
      <<"D", "B", "G">>,
      <<"T", "R", "A", "C", "E">>,
      <<"T", "R", "C">>,
      <<"V", "E", "R", "B", "O", "S", "E">>,
      <<"V", "E", "R", "B">>>>

\* detect_log_level: level_patterns, in its order.
LevelPatterns ==
    <<<<"F", "A", "T", "A", "L">>,
      <<"C", "R", "I", "T", "I", "C", "A", "L">>,
      <<"C", "R", "I", "T">>,
      <<"E", "R", "R", "O", "R">>,
      <<"E", "R", "R">>,
      <<"W", "A", "R", "N">>,
      <<"W", "A", "R", "N", "I", "N", "G">>,
      <<"I", "N", "F", "O">>,
      <<"I", "N", "F", "O", "R", "M", "A", "T", "I", "O", "N">>,
      <<"D", "E", "B", "U", "G">>,
      <<"D", "B", "G">>,
      <<"T", "R", "A", "C", "E">>,
      <<"T", "R", "C">>,
      <<"V", "E", "R", "B", "O", "S", "E">>,
      <<"V", "E", "R", "B">>>>

\* detect_log_level, its loop from position i of level_patterns: the first
\* level_str the line contains is parsed and returned.
RECURSIVE DetectFrom(_, _)
DetectFrom(line, i) ==
    IF i > Len(LevelPatterns) THEN None
    ELSE IF Contains(line, LevelPatterns[i]) THEN LogLevelFromStr(LevelPatterns[i])
    ELSE DetectFrom(line, i + 1)

\* CompiledPattern::detect_log_level
DetectLogLevel(line) == DetectFrom(line, 1)

DetectInit ==
    /\ fin \in {Concat(ws) : ws \in SeqsUpTo(LineFragments, MaxFragments)}
    /\ fout = None
    /\ fphase = "input"
    \* the sync service and the server are not running
    /\ sync_mode = "OfflineOnly" /\ svc = "new" /\ client = None /\ cache = None
    /\ cache_file = FileAbsent /\ cm_lock = LockFree /\ last_sync = None /\ now = 0
    /\ backup_file = FileAbsent /\ temp_file = FileAbsent
    /\ spc = <<>> /\ sloc = <<>> /\ sres = <<>>
    /\ documents = <<>> /\ pattern_engine = None /\ pe_lock = LockFree
    /\ tagscout_service = FALSE /\ engines_built = 0
    /\ hpc = <<>> /\ hloc = <<>> /\ published = <<>>

\* process_line: let log_level = CompiledPattern::detect_log_level(line)
DetectLevel ==
    /\ fphase = "input"
    /\ fout' = DetectLogLevel(fin)
    /\ fphase' = "detected"
    /\ UNCHANGED fin
    /\ UNCHANGED notFun

DetectNext == DetectLevel

(***************************************************************************)
(* The locks of the server and of its sync service                         *)
(***************************************************************************)

\* Bound: the handler tasks that run beside the background initialization.
MaxLockHandlers == 2

\* Task 0 is the task spawned by initialized(); the others are LSP handlers.
LockTasks == 0..MaxLockHandlers

LockNames == {"pattern_engine", "tagscout_service", "cache_manager", "last_sync"}

\* analyze stands for the handlers that run analyze_text: did_open, did_change
\* and did_save through analyze_and_publish (push), and the pull handler.
HandlerOps == {"analyze", "getPatterns", "refreshPatterns"}

\* A tokio RwLock with its FIFO queue of waiters.
FairLockFree == [readers |-> {}, writer |-> {}, queue |-> <<>>]

\* The steps of a handler: a lock acquisition, the drop of a guard, an I/O call
\* that is awaited, and the two steps that read or write the service slot;
\* next holds the positions the step can go to, 0 for the return.
Acq(l, m, next) == [k |-> "acq", lock |-> l, mode |-> m, next |-> next]
Rel(l, next) == [k |-> "rel", lock |-> l, mode |-> "none", next |-> next]
Io(next) == [k |-> "io", lock |-> "none", mode |-> "none", next |-> next]
Store(next) == [k |-> "store", lock |-> "tagscout_service", mode |-> "none", next |-> next]
Check(next) == [k |-> "check", lock |-> "tagscout_service", mode |-> "none", next |-> next]

\* initialize_tagscout: the service is built and synchronized before it is
\* shared (its own locks are not contended), then the engine is written and the
\* service stored, each under its own write guard.
InitializeTagscoutProgram ==
    <<Io({0, 2, 4}),
      Acq("pattern_engine", "write", {3}),
      Rel("pattern_engine", {4}),
      Acq("tagscout_service", "write", {5}),
      Store({6}),
      Rel("tagscout_service", {0})>>

\* analyze_and_publish and the pull handler: analyze_text under the read guard
\* of the engine, with the progress notifications it awaits there, then
\* publish_diagnostics (push) or the return (pull).
AnalyzeProgram ==
    <<Acq("pattern_engine", "read", {2, 3}),
      Io({3}),
      Rel("pattern_engine", {0, 4}),
      Io({0})>>

\* logScout.getPatterns: the engine is read under its read guard.
GetPatternsProgram ==
    <<Acq("pattern_engine", "read", {2}),
      Rel("pattern_engine", {0})>>

\* A variant of refresh_tagscout_patterns that keeps its first read guard of the
\* service while it takes the second.
RefreshProgram_KeepsFirstGuard ==
    <<Acq("tagscout_service", "read", {2}),
      Io({3}),
      Acq("tagscout_service", "read", {4}),
      Acq("cache_manager", "read", {5}),
      Rel("cache_manager", {6, 8}),
      Acq("cache_manager", "write", {7}),
      Rel("cache_manager", {11, 17}),
      Io({6, 9}),
      Acq("cache_manager", "write", {10}),
      Rel("cache_manager", {6, 11}),
      Acq("last_sync", "write", {12}),
      Rel("last_sync", {13}),
      Acq("cache_manager", "read", {14}),
      Rel("cache_manager", {15, 17}),
      Acq("pattern_engine", "write", {16}),
      Rel("pattern_engine", {17}),
      Rel("tagscout_service", {0})>>

\* refresh_tagscout_patterns: the service slot is read under a first read guard,
\* which is dropped; with a service, a second read guard is held over sync()
\* (CacheFirst: is_cache_valid under the manager's read guard; sync_from_cache,
\* or after the fetch sync_from_mongodb, under its write guard, the file I/O
\* included; a failed fetch or save falls back to sync_from_cache; then the
\* write of last_sync), over get_patterns() and over the write of the engine.
\* An error of sync() or of PatternEngine::new, and an empty pattern list, end
\* the handler with the drop of the guard.
RefreshProgram ==
    <<Acq("tagscout_service", "read", {2}),
      Check({3}),
      Acq("tagscout_service", "read", {4}),
      Acq("cache_manager", "read", {5}),
      Rel("cache_manager", {6, 8}),
      Acq("cache_manager", "write", {7}),
      Rel("cache_manager", {11, 17}),
      Io({6, 9}),
      Acq("cache_manager", "write", {10}),
      Rel("cache_manager", {6, 11}),
      Acq("last_sync", "write", {12}),
      Rel("last_sync", {13}),
      Acq("cache_manager", "read", {14}),
      Rel("cache_manager", {15, 17}),
      Acq("pattern_engine", "write", {16}),
      Rel("pattern_engine", {17}),
      Rel("tagscout_service", {0})>>

\* The steps of the handler op.
ProgramOf(op) ==
    CASE op = "initialize_tagscout" -> InitializeTagscoutProgram
      [] op = "refreshPatterns" -> RefreshProgram
      [] op = "getPatterns" -> GetPatternsProgram
      [] op = "analyze" -> AnalyzeProgram

\* The step task t is at; a task that has not been called or has returned is
\* at position 0.
Running(t) == fout[t].pc # 0
StepOf(t) == ProgramOf(fout[t].op)[fout[t].pc]

\* fin holds the locks and whether the service slot is Some; fout holds, for
\* every task, its handler, its position and whether it waits for a lock.
LocksInit ==
    /\ fin = [locks |-> [l \in LockNames |-> FairLockFree], stored |-> FALSE]
    /\ fout = [t \in LockTasks |-> [op |-> "none", pc |-> 0, waiting |-> FALSE]]
    /\ fphase = "serving"
    \* the sync service and the server are not running
    /\ sync_mode = "OfflineOnly" /\ svc = "new" /\ client = None /\ cache = None
    /\ cache_file = FileAbsent /\ cm_lock = LockFree /\ last_sync = None /\ now = 0
    /\ backup_file = FileAbsent /\ temp_file = FileAbsent
    /\ spc = <<>> /\ sloc = <<>> /\ sres = <<>>
    /\ documents = <<>> /\ pattern_engine = None /\ pe_lock = LockFree
    /\ tagscout_service = FALSE /\ engines_built = 0
    /\ hpc = <<>> /\ hloc = <<>> /\ published = <<>>

\* A notification, request or command arrives and its handler starts; task 0
\* is spawned by initialized().
HandlerCalled(t) ==
    /\ fout[t].op = "none"
    /\ \E op \in (IF t = 0 THEN {"initialize_tagscout"} ELSE HandlerOps) :
         fout' = [fout EXCEPT ![t] = [op |-> op, pc |-> 1, waiting |-> FALSE]]
    /\ UNCHANGED <<fin, fphase>> /\ UNCHANGED notFun

\* Whether the lock can give a guard of the mode at once.
Available(lock, mode) ==
    /\ lock.writer = {}
    /\ mode = "write" => lock.readers = {}

\* The lock with a guard of the mode given to t.
Held(lock, t, mode) ==
    [lock EXCEPT !.readers = IF mode = "read" THEN @ \cup {t} ELSE @,
                 !.writer = IF mode = "write" THEN {t} ELSE @]

\* lock.read().await / lock.write().await: with no waiter ahead and the lock
\* available the guard is returned without suspending; otherwise the task joins
\* the queue of the lock.
LockRequested(t) ==
    /\ Running(t) /\ StepOf(t).k = "acq" /\ ~fout[t].waiting
    /\ LET l == StepOf(t).lock
           lock == fin.locks[l]
       IN  IF lock.queue = <<>> /\ Available(lock, StepOf(t).mode)
           THEN /\ fin' = [fin EXCEPT !.locks[l] = Held(lock, t, StepOf(t).mode)]
                /\ \E next \in StepOf(t).next : fout' = [fout EXCEPT ![t].pc = next]
           ELSE /\ fin' = [fin EXCEPT !.locks[l].queue = Append(@, <<t, StepOf(t).mode>>)]
                /\ fout' = [fout EXCEPT ![t].waiting = TRUE]
    /\ UNCHANGED fphase /\ UNCHANGED notFun

\* The first waiter of the lock gets its guard: a reader when no writer holds
\* the lock, a writer when nobody holds it.
LockGranted(l) ==
    LET lock == fin.locks[l]
    IN  /\ lock.queue # <<>>
        /\ LET t == Head(lock.queue)[1]
               mode == Head(lock.queue)[2]
           IN  /\ Available(lock, mode)
               /\ fin' = [fin EXCEPT !.locks[l] =
                            [Held(lock, t, mode) EXCEPT !.queue = Tail(lock.queue)]]
               /\ \E next \in StepOf(t).next :
                    fout' = [fout EXCEPT ![t].pc = next, ![t].waiting = FALSE]
        /\ UNCHANGED fphase /\ UNCHANGED notFun

\* A guard is dropped.
GuardDropped(t) ==
    /\ Running(t) /\ StepOf(t).k = "rel"
    /\ fin' = [fin EXCEPT !.locks[StepOf(t).lock].readers = @ \ {t},
                          !.locks[StepOf(t).lock].writer = @ \ {t}]
    /\ \E next \in StepOf(t).next : fout' = [fout EXCEPT ![t].pc = next]
    /\ UNCHANGED fphase /\ UNCHANGED notFun

\* An awaited client, disk or network call returns.
IoReturned(t) ==
    /\ Running(t) /\ StepOf(t).k = "io"
    /\ \E next \in StepOf(t).next : fout' = [fout EXCEPT ![t].pc = next]
    /\ UNCHANGED <<fin, fphase>> /\ UNCHANGED notFun

\* initialize_tagscout: *guard = Some(service)
ServiceStored(t) ==
    /\ Running(t) /\ StepOf(t).k = "store"
    /\ fin' = [fin EXCEPT !.stored = TRUE]
    /\ \E next \in StepOf(t).next : fout' = [fout EXCEPT ![t].pc = next]
    /\ UNCHANGED fphase /\ UNCHANGED notFun

\* refresh_tagscout_patterns: guard.as_ref().map(|_| ()) and the drop of the first
\* guard; without a service the handler returns its error.
ServiceChecked(t) ==
    /\ Running(t) /\ StepOf(t).k = "check"
    /\ fin' = [fin EXCEPT !.locks["tagscout_service"].readers = @ \ {t}]
    /\ \E next \in (IF fin.stored THEN StepOf(t).next ELSE {0}) :
         fout' = [fout EXCEPT ![t].pc = next]
    /\ UNCHANGED fphase /\ UNCHANGED notFun

\* A step of task t other than the arrival of its request.
HandlerStep(t) ==
    LockRequested(t) \/ GuardDropped(t) \/ IoReturned(t) \/ ServiceStored(t) \/ ServiceChecked(t)

LocksNext ==
    \/ \E t \in LockTasks :
         \/ HandlerCalled(t)
         \/ LockRequested(t)
         \/ GuardDropped(t)
         \/ IoReturned(t)
         \/ ServiceStored(t)
         \/ ServiceChecked(t)
    \/ \E l \in LockNames : LockGranted(l)

(***************************************************************************)
(* analyze_text over patterns of every mode                                *)
(***************************************************************************)

\* The document texts analysed under an engine built from patterns of any mode.
AnalysisTexts == {TextA, TextB, <<"miss", "hit">>}

AnalysisInit ==
    /\ fin \in [patterns : SeqsUpTo(ModePatterns, MaxPat), text : AnalysisTexts]
    /\ fout = [engine |-> None, diagnostics |-> <<>>]
    /\ fphase = "input"
    \* the sync service and the server are not running
    /\ sync_mode = "OfflineOnly" /\ svc = "new" /\ client = None /\ cache = None
    /\ cache_file = FileAbsent /\ cm_lock = LockFree /\ last_sync = None /\ now = 0
    /\ backup_file = FileAbsent /\ temp_file = FileAbsent
    /\ spc = <<>> /\ sloc = <<>> /\ sres = <<>>
    /\ documents = <<>> /\ pattern_engine = None /\ pe_lock = LockFree
    /\ tagscout_service = FALSE /\ engines_built = 0
    /\ hpc = <<>> /\ hloc = <<>> /\ published = <<>>

\* refresh_tagscout_patterns: PatternEngine::new(patterns) on the patterns of
\* the cache, the engine stored when it is Ok.
AnalysisBuild ==
    /\ fphase = "input"
    /\ fout' = [fout EXCEPT !.engine = PatternEngineNew(fin.patterns, 1)]
    /\ fphase' = "loaded"
    /\ UNCHANGED fin
    /\ UNCHANGED notFun

\* analyze_text(text) under the stored engine (none when the build failed).
AnalysisRun ==
    /\ fphase = "loaded"
    /\ fout' = [fout EXCEPT !.diagnostics = AnalyzeText(fout.engine, fin.text)]
    /\ fphase' = "analysed"
    /\ UNCHANGED fin
    /\ UNCHANGED notFun

AnalysisNext == AnalysisBuild \/ AnalysisRun

(***************************************************************************)
(*                         SPECIFICATIONS                                  *)
(***************************************************************************)

\* add_pattern's normalization on every text of the bound.
SpecNormalize == NormalizeInit /\ [][NormalizeNext]_vars

\* PatternEngine::new on every pattern list of the bound.
SpecEngine == EngineInit /\ [][EngineNext]_vars

\* convert on every annotation and configuration of the bound.
SpecConvert == ConvertInit /\ [][ConvertNext]_vars

\* The sync service alone.
SpecSync == SyncInit /\ [][SyncNext]_vars

\* The sync service with force_refresh() among its calls.
SpecForce == SyncInit /\ [][ForceNext]_vars

\* CacheManager::save alone, with I/O errors and process stops.
SpecSave == SaveInit /\ [][SaveNext]_vars

\* The LSP server alone: handlers, the engine slot, the published diagnostics.
SpecServer == ServerInit /\ [][ServerNext]_vars

\* deduplicate_detections on every detection list of the bound.
SpecDedup == DedupInit /\ [][DedupNext]_vars

\* evaluate_severity and the diagnostic of the detection, on every input of the bound.
SpecSeverity == SeverityInit /\ [][SeverityNext]_vars

\* substitute_template on every template and field map of the bound.
SpecSubst == SubstInit /\ [][SubstNext]_vars

\* A ContextProcessor under every sequence of push_line, get_context and reset
\* of the bound.
SpecContext == ContextInit /\ [][ContextNext]_vars

\* The auto-refresh loop; the clock advances, a due tick fires and a sync()
\* that was called returns.
SpecRefresh ==
    /\ RefreshInit /\ [][RefreshNext]_vars
    /\ WF_vars(ClockAdvance) /\ WF_vars(TickerFires) /\ WF_vars(SyncReturns)

\* PatternCache::merge on every pair of caches of the bound.
SpecMerge == MergeInit /\ [][MergeNext]_vars

\* PatternEngine::new on every list of the bound, then process_line on a line.
SpecProcess == ProcessInit /\ [][ProcessNext]_vars

\* detect_log_level on every line of the bound.
SpecDetect == DetectInit /\ [][DetectNext]_vars

\* The handlers over the four locks: every task that can take a step takes it,
\* and a lock that can be granted to its first waiter is granted.
SpecLocks ==
    /\ LocksInit /\ [][LocksNext]_vars
    /\ \A t \in LockTasks : WF_vars(HandlerStep(t))
    /\ \A l \in LockNames : WF_vars(LockGranted(l))

\* deduplicate_detections run twice on every list of the bound.
SpecDedupTwice == DedupInit /\ [][DedupTwiceNext]_vars

SpecAnalysis == AnalysisInit /\ [][AnalysisNext]_vars

(***************************************************************************)
(*                    CLAIMS ABOUT THE PATTERN CACHE                       *)
(***************************************************************************)

\* s[i..j] has the shape {{NAME}} with optional inner whitespace: the name
\* is s[b..c].
PlaceholderShape(s, i, j, b, c) ==
    /\ s[i] = "{" /\ s[i + 1] = "{" /\ s[j - 1] = "}" /\ s[j] = "}"
    /\ \A k \in (i + 2)..(b - 1) : s[k] \in WhiteSpace
    /\ s[b] \in NameStartChars
    /\ \A k \in (b + 1)..c : s[k] \in WordChars
    /\ \A k \in (c + 1)..(j - 2) : s[k] \in WhiteSpace

\* Every placeholder of s has exactly one space on each side of its name.
CanonicalText(s) ==
    \A i \in {k \in 1..(Len(s) - 1) : s[k] = "{" /\ s[k + 1] = "{"} :
        \A j \in {k \in (i + 4)..Len(s) : s[k - 1] = "}" /\ s[k] = "}"} :
            \A b \in (i + 2)..(j - 2) : \A c \in b..(j - 2) :
                PlaceholderShape(s, i, j, b, c)
                => (b = i + 3 /\ s[i + 2] = " " /\ j = c + 3 /\ s[c + 1] = " ")

\* C20: after add_pattern the annotation text and the category of the stored
\* pattern hold their placeholders in the canonical form {{ NAME }}, and
\* adding the stored pattern again stores the same texts.
C20_StoredTemplatesCanonical ==
    /\ fphase \in {"added", "added_again"}
       => CanonicalText(fout.stored.annotation) /\ CanonicalText(fout.stored.category)
    /\ fphase = "added_again" => fout.again = fout.stored

\* A text with two placeholders in other spacings was added and added again,
\* and it was changed by the first add.
C20_Witness ==
    /\ fphase = "added_again"
    /\ ~CanonicalText(fin.annotation)
    /\ fout.stored.annotation # fin.annotation
    /\ Len(fout.stored.annotation) >= 14
    /\ fin.category = <<"{", "{", "A", "}", "}">>

(***************************************************************************)
(*                    CLAIMS ABOUT THE SYNC SERVICE                        *)
(***************************************************************************)

\* The calls of sync() that have returned.
Done(t) == spc[t] = "done"

\* C1: in OnlineFirst mode, a sync() whose remote sync failed and whose load then
\* found a cache file holding N patterns returns Ok with from_cache = true,
\* patterns_fetched = N and at least one warning.
C1_OnlineFirstFallsBackToCache ==
    \A t \in Tasks :
        (/\ sync_mode = "OnlineFirst"
         /\ Done(t)
         /\ sloc[t].mongo_failed
         /\ IsSome(sloc[t].loaded)
         /\ Unwrap(sloc[t].loaded).kind = "ok")
        => /\ sres[t].ok
           /\ sres[t].from_cache
           /\ sres[t].patterns_fetched = Unwrap(sloc[t].loaded).held
           /\ sres[t].warnings >= 1

\* C1 witness: an OnlineFirst call whose fetch failed has returned from a cache
\* file that held two patterns.
C1_Witness ==
    \E t \in Tasks :
        /\ sync_mode = "OnlineFirst"
        /\ Done(t)
        /\ sloc[t].mongo_failed
        /\ sloc[t].fetched_remote
        /\ IsSome(sloc[t].loaded)
        /\ Unwrap(sloc[t].loaded) = [kind |-> "ok", held |-> 2]
        /\ sres[t].ok

\* The cache file a CacheFirst call checked existed, deserialized and was not expired.
CheckedValid(t) ==
    /\ Unwrap(sloc[t].checked).kind = "ok"
    /\ Unwrap(sloc[t].checked).age <= CacheTtl

\* A CacheFirst call that has returned after its validity check.
CacheFirstDone(t) ==
    /\ sync_mode = "CacheFirst"
    /\ Done(t)
    /\ IsSome(sloc[t].checked)

FetchInFlight == {t \in Tasks : spc[t] = "m_fetch"}

\* C3 as claimed: at most one remote fetch is in flight at any time.
C3_AtMostOneFetchInFlight == Cardinality(FetchInFlight) <= 1

\* Task t holds a guard of the cache-manager lock.
HoldsManagerLock(t) == t \in cm_lock.readers \/ cm_lock.writer = t

\* Task t is suspended in a remote fetch or in a read or write of the disk.
AwaitingIo(t) == spc[t] \in {"cf_valid", "m_fetch", "m_save", "c_load"}

\* C13: a sync() call that is suspended in a remote fetch or in disk I/O holds
\* no guard of the cache-manager lock.
C13_NoManagerLockAcrossIo ==
    \A t \in Tasks : AwaitingIo(t) => ~HoldsManagerLock(t)

\* C15: in OfflineOnly mode the service never holds a client, no call is ever
\* in a remote fetch or in the cache update that follows one, and every Ok
\* result says from_cache.
C15_OfflineOnlyStaysLocal ==
    sync_mode = "OfflineOnly" =>
        /\ client = None
        /\ \A t \in Tasks :
              /\ spc[t] \notin {"m_fetch", "m_wlock", "m_save"}
              /\ ~sloc[t].fetched_remote /\ ~sloc[t].mongo_failed
              /\ sres[t].ok => sres[t].from_cache

\* OfflineOnly: initialize() and a later sync() have both returned Ok.
C15_Witness ==
    /\ sync_mode = "OfflineOnly" /\ svc = "ready"
    /\ \A t \in Tasks : spc[t] = "done" /\ sres[t].ok /\ sres[t].from_cache

\* C16: in AlwaysOnline mode the step in which a call's remote fetch fails ends
\* the call with an error and leaves the in-memory cache and the cache file as
\* they were, and no call ever returns a result served from the cache.
C16_AlwaysOnlineFailsWithoutCache ==
    [][sync_mode = "AlwaysOnline" =>
         \A t \in Tasks :
            /\ (spc[t] = "m_fetch" /\ spc'[t] \notin {"m_fetch", "m_wlock"})
               => /\ spc'[t] = "done" /\ sres'[t] = SyncErr("ClientError")
                  /\ cache' = cache /\ cache_file' = cache_file
            /\ spc'[t] \notin {"c_wlock", "c_load"}
            /\ sres'[t].ok => ~sres'[t].from_cache]_vars

\* AlwaysOnline: initialize() has filled the cache and the file, and a later
\* sync() has returned the error of its failed fetch.
C16_Witness ==
    /\ sync_mode = "AlwaysOnline" /\ svc = "ready"
    /\ IsSome(cache) /\ cache_file.kind = "ok"
    /\ spc[2] = "done" /\ sloc[2].mongo_failed /\ sres[2] = SyncErr("ClientError")

\* C17: the step of initialize() that follows a failed connection returns the
\* error with no sync() entered in AlwaysOnline and OnlineFirst, and enters
\* sync() otherwise; until initialize() returns, its sync() is the only call,
\* entered once, and initialize() succeeds in the step in which that one call
\* returns Ok.
C17_InitializeRunsSyncOnce ==
    [][/\ (svc = "new" /\ svc' # "new") =>
            IF client' = None /\ sync_mode \in {"AlwaysOnline", "OnlineFirst"}
            THEN svc' = "failed" /\ spc' = spc /\ sres' = sres
                 /\ cache' = cache /\ last_sync' = last_sync
            ELSE svc' = "initializing" /\ spc[1] = "idle" /\ spc'[1] \notin {"idle", "done"}
       /\ svc = "initializing" =>
            /\ spc[1] \notin {"idle", "done"} /\ spc'[1] # "idle"
            /\ \A t \in Tasks \ {1} : spc[t] = "idle" /\ spc'[t] = "idle"
            /\ (spc'[1] = "done") = (svc' # "initializing")
       /\ (svc # "ready" /\ svc' = "ready") =>
            svc = "initializing" /\ spc'[1] = "done" /\ sres'[1].ok
       /\ svc = "failed" => svc' = "failed" /\ spc' = spc]_vars

\* CacheFirst: the connection failed, initialize() went on and its sync()
\* returned Ok.
C17_Witness ==
    /\ sync_mode = "CacheFirst" /\ client = None /\ svc = "ready"
    /\ spc[1] = "done" /\ sres[1].ok /\ spc[2] = "idle"

\* C25: a sync() call that found a cache file that does not deserialize does
\* not fail for it, and once a sync() call has returned and none is in flight
\* the cache file deserializes.
C25_CorruptFileIsRebuilt ==
    /\ \A t \in Tasks :
          (spc[t] = "done" /\ sloc[t].loaded = Some(Seen(FileCorrupt))) => sres[t].ok
    /\ ((\E t \in Tasks : spc[t] = "done") /\ (\A t \in Tasks : spc[t] \in {"idle", "done"}))
       => cache_file.kind # "corrupt"

\* C26, as stated: in the step in which a sync() call returns, last_sync
\* becomes the time of that step.
C26_Original ==
    [][\A t \in Tasks :
          (spc[t] # "done" /\ spc'[t] = "done") => last_sync' = Some(now)]_vars

\* C26, amended: in the step in which a sync() call returns Ok, last_sync
\* becomes the time of that step; a call that returns an error leaves
\* last_sync as it was.
C26_OkSyncRecordsLastSync ==
    [][\A t \in Tasks :
          (spc[t] # "done" /\ spc'[t] = "done") =>
              IF sres'[t].ok THEN last_sync' = Some(now) ELSE last_sync' = last_sync]_vars

\* A later sync() has returned Ok at time 1 and last_sync is that time.
C26_Witness ==
    /\ svc = "ready" /\ spc[2] = "done" /\ sres[2].ok
    /\ now = 1 /\ last_sync = Some(1)

\* C27: a force_refresh() call that has returned, in any mode and whatever the
\* cache file, has performed a remote fetch, and a result it returned does not
\* say from_cache.
C27_ForceRefreshFetches ==
    \A t \in Tasks :
        (spc[t] = "done" /\ sloc[t].force) =>
            /\ sloc[t].fetched_remote
            /\ sres[t].ok => ~sres[t].from_cache

\* The half of C27 that holds: no result of force_refresh() says from_cache,
\* and an Ok result is that of a fetch followed by a cache update.
C27_ForceRefreshNeverFromCache ==
    \A t \in Tasks :
        (spc[t] = "done" /\ sloc[t].force /\ sres[t].ok) =>
            ~sres[t].from_cache /\ sloc[t].fetched_remote

(***************************************************************************)
(*                    CLAIMS ABOUT THE CONVERTER                           *)
(***************************************************************************)

\* C18: for an annotation with content = true or production = false, convert
\* returns the error InvalidAnnotation.
C18_RejectedWithInvalidAnnotation ==
    (fphase = "converted" /\ (fin.annotation.content \/ ~fin.annotation.production))
    => (~fout.ok /\ fout.error = "InvalidAnnotation")

\* C19: an engine returned by PatternEngine::new holds at most one compiled
\* pattern per id.
C19_EnginePatternIdsUnique ==
    (fphase = "built" /\ IsSome(fout)) =>
        LET compiled == Unwrap(fout).patterns
        IN  \A i, j \in 1..Len(compiled) : compiled[i].id = compiled[j].id => i = j

(***************************************************************************)
(*                    CLAIMS ABOUT THE CACHE MANAGER                       *)
(***************************************************************************)

\* C11: at every step of save(), also when the process stops there, the current
\* cache file is the complete file the call found or the complete new cache,
\* never a truncated document; a stop between the temp-file write and the
\* rename leaves the file the call found.
C11_SaveIsAtomic ==
    /\ cache_file.kind # "partial"
    /\ fphase # "idle" => cache_file \in {fin.previous, FileOf(fin.cache)}
    /\ (fphase = "stopped" /\ fout.at \in {"copy", "write", "rename"})
       => cache_file = fin.previous

\* The process stopped between the write of the temp file and the rename: the
\* temp file holds the new cache, the current file still the saved one before.
C11_Witness ==
    /\ fphase = "stopped"
    /\ fout.at = "rename"
    /\ temp_file = FileOf(fin.cache)
    /\ cache_file.kind = "ok"
    /\ cache_file # FileOf(fin.cache)
    /\ backup_file = cache_file

(***************************************************************************)
(*                    CLAIMS ABOUT THE LSP SERVER                          *)
(***************************************************************************)

AllHandlersDone == \A h \in Handlers : hpc[h] \in {"idle", "done"}

Analysing(h) == hpc[h] \in {"lines", "progress"}

\* C4: every analysis runs all of its lines against one engine: while an
\* analysis is in flight the engine slot still holds the engine the analysis
\* read when it started (the latest swap completed before it), so no swap takes
\* effect in its middle, and every detection it has collected comes from that
\* engine.
C4_AnalysisUsesOneEngine ==
    \A h \in Handlers :
        /\ Analysing(h) => pattern_engine = hloc[h].engine /\ IsSome(hloc[h].engine)
        /\ \A i \in 1..Len(hloc[h].dets) :
               Some(hloc[h].dets[i].engine) = hloc[h].engine

\* An analysis has processed one of its two lines while a refresh that has built
\* another engine waits for the write lock.
C4_Witness ==
    \E h \in Handlers, g \in ServerTasks :
        /\ Analysing(h) /\ hloc[h].line = 1 /\ Len(hloc[h].dets) = 1
        /\ hpc[g] = "swap" /\ hloc[g].op = "refresh"
        /\ hloc[g].built # hloc[h].engine

\* The diagnostics an analysis of the text can give, under any engine or none.
DiagnosticsOf(text) ==
    {AnalyzeText(e, text) :
        e \in {None} \cup {PatternEngineNew(l, i) : l \in ServerPatternLists \ {<<>>}, i \in 1..engines_built}}

\* C5: for one URI, once all handlers have completed, the last published
\* diagnostic set is one computed from the text stored for the URI.
C5_PublishedIsOfStoredText ==
    \A u \in Uris :
        (AllHandlersDone /\ documents[u] # NoDoc)
        => published[u].items \in DiagnosticsOf(Unwrap(documents[u]))

\* C6: after did_close, once all handlers have finished and the document is
\* still closed, the last published diagnostic set of the URI is empty.
C6_EmptyAfterClose ==
    \A u \in Uris :
        (AllHandlersDone /\ documents[u] = NoDoc /\ \E h \in Handlers : hloc[h].op = "did_close")
        => published[u].items = <<>>

\* C30: once did_close(uri) has removed the document and while the map holds
\* no entry for uri, only did_open(uri) puts an entry back, whatever did_change,
\* did_save or pull diagnostics arrive for the uri.
C30_EvictedUntilOpen ==
    [][\A u \in Uris :
          (/\ documents[u] = NoDoc
           /\ \E h \in Handlers : hloc[h].op = "did_close"
           /\ documents'[u] # NoDoc)
          => \E h \in Handlers : hpc[h] = "idle" /\ hloc'[h].op = "did_open"]_vars

\* C36: the diagnostics published for a uri change only in the publish step of
\* a did_open, did_change, did_save or did_close handler; the steps that build,
\* install or swap an engine, and pull requests, leave them as they are.
C36_SwapPublishesNothing ==
    [][\A u \in Uris :
          published'[u] # published[u] =>
              \E h \in Handlers :
                  /\ hpc[h] = "publish" /\ hpc'[h] = "done"
                  /\ hloc[h].op \in {"did_open", "did_change", "did_save", "did_close"}]_vars

\* An engine that detects something in the open document has been installed
\* after the document was opened, no handler is running, and the diagnostics
\* published by did_open are still the empty list.
C36_Witness ==
    /\ AllHandlersDone /\ hpc[0] = "done"
    /\ IsSome(pattern_engine)
    /\ documents["u"] = Some(TextA)
    /\ published["u"] = [items |-> <<>>, by |-> "did_open"]
    /\ Len(Unwrap(pattern_engine).patterns) >= 1

\* C14: a handler that is suspended in the progress notification of
\* analyze_text does not hold the read guard of the engine lock.
C14_NoAwaitUnderEngineLock ==
    \A h \in Handlers : hpc[h] = "progress" => h \notin pe_lock.readers

\* The engine holds, in order, every enabled pattern of the list, and each of
\* them compiled.
FullyBuilt(engine, list) ==
    LET enabled == SelectSeq(list, LAMBDA p : p.enabled)
    IN  /\ engine.patterns = enabled
        /\ \A i \in 1..Len(enabled) : enabled[i].regex_ok

\* C12: the engine slot changes only in the swap of a refresh or of the
\* initialisation, and then to the one engine that was fully built from the
\* complete pattern list this task got; a task whose sync, pattern query or
\* engine construction failed leaves the slot as it was.
C12_SwapIsAllOrNothing ==
    [][pattern_engine' # pattern_engine =>
         \E h \in ServerTasks :
            /\ hpc[h] = "swap" /\ hpc'[h] # "swap"
            /\ hloc[h].patterns # <<>>
            /\ IsSome(hloc[h].built)
            /\ pattern_engine' = hloc[h].built
            /\ FullyBuilt(Unwrap(hloc[h].built), hloc[h].patterns)]_vars

\* A refresh whose engine construction failed on an invalid regex has returned,
\* and the slot holds the engine the initialisation swapped in.
C12_Witness ==
    /\ IsSome(pattern_engine) /\ pattern_engine = hloc[0].built
    /\ \E h \in Handlers :
           /\ hpc[h] = "done" /\ hloc[h].op = "refresh"
           /\ hloc[h].built = None
           /\ \E i \in 1..Len(hloc[h].patterns) :
                  hloc[h].patterns[i].enabled /\ ~hloc[h].patterns[i].regex_ok

(***************************************************************************)
(*                 CLAIMS ABOUT THE PURE FUNCTIONS                         *)
(***************************************************************************)

\* The elements of a sequence.
Range(s) == {s[i] : i \in 1..Len(s)}

\* Error > Warning > Info > Hint
StrictlyHigher(a, b) ==
    <<a, b>> \in {<<"Error", "Warning">>, <<"Error", "Info">>, <<"Error", "Hint">>,
                  <<"Warning", "Info">>, <<"Warning", "Hint">>, <<"Info", "Hint">>}

\* C7: deduplicate_detections(D) returns exactly one detection, taken from D,
\* for every (line_number, column_range) occurring in D, and no returned
\* detection shares its key with a detection of D of strictly higher final
\* severity.
C7_OnePerKeyHighestSeverity ==
    fphase = "deduplicated" =>
        /\ Range(fout) \subseteq Range(fin)
        /\ \A k \in DetectionKeys(fin) :
               Cardinality({i \in 1..Len(fout) : DetectionKey(fout[i]) = k}) = 1
        /\ Len(fout) = Cardinality(DetectionKeys(fin))
        /\ \A i \in 1..Len(fout), j \in 1..Len(fin) :
               DetectionKey(fin[j]) = DetectionKey(fout[i])
               => ~StrictlyHigher(fin[j].final_severity, fout[i].final_severity)

\* A Warning and then an Error on one range, and a detection on another line:
\* the Error and the other detection are returned.
C7_Witness ==
    /\ fphase = "deduplicated"
    /\ Len(fin) = 3 /\ Len(fout) = 2
    /\ DetectionKey(fin[1]) = DetectionKey(fin[2])
    /\ fin[1].final_severity = "Warning" /\ fin[2].final_severity = "Error"
    /\ fin[3].line_number # fin[1].line_number
    /\ fin[2] \in Range(fout)

\* The position in D of the first detection of key k that no detection of key k
\* exceeds in severity.
FirstOfHighest(D, k) ==
    CHOOSE m \in 1..Len(D) :
        /\ DetectionKey(D[m]) = k
        /\ \A j \in 1..Len(D) :
             DetectionKey(D[j]) = k =>
                 /\ ~StrictlyHigher(D[j].final_severity, D[m].final_severity)
                 /\ (D[j].final_severity = D[m].final_severity => m <= j)

\* C32: the survivor of every key is the first produced of the detections of
\* highest severity with that key, and the returned list is in ascending
\* line_number order.
C32_FirstOfHighestSurvivesSorted ==
    fphase = "deduplicated" =>
        /\ \A i, j \in 1..Len(fout) : i < j => fout[i].line_number <= fout[j].line_number
        /\ \A i \in 1..Len(fout) : fout[i] = fin[FirstOfHighest(fin, DetectionKey(fout[i]))]

\* A detection of line 1, then two detections of equal severity and different
\* patterns on one range of line 0: the first of the two survives, and comes
\* before the detection of line 1.
C32_Witness ==
    /\ fphase = "deduplicated"
    /\ Len(fin) = 3
    /\ fin[1].line_number = 1 /\ fin[2].line_number = 0
    /\ DetectionKey(fin[2]) = DetectionKey(fin[3])
    /\ fin[2].final_severity = fin[3].final_severity
    /\ fin[2].pattern # fin[3].pattern
    /\ fout = <<fin[2], fin[1]>>

\* C8: the diagnostic materialized for a detection carries the detection's
\* final_severity, mapped Error 1, Warning 2, Info 3, Hint 4.
C8_DiagnosticCarriesFinalSeverity ==
    fphase = "diagnostic" =>
        fout.diagnostic.severity = LspSeverity(fout.detection.final_severity)

\* A string of digits.
Numeric(s) == s # <<>> /\ \A i \in 1..Len(s) : s[i] \in Digits

\* The trigger's operator holds for the value: GreaterThan and LessThan compare
\* numbers, and never hold when a side is not numeric.
OperatorHolds(trigger, value) ==
    \/ trigger.operator = "Equals" /\ value = trigger.value
    \/ trigger.operator = "Contains" /\ Contains(value, trigger.value)
    \/ trigger.operator = "Regex" /\ IsSome(RegexNew(trigger.value))
       /\ RegexIsMatch(trigger.value, value)
    \/ trigger.operator = "GreaterThan" /\ Numeric(value) /\ Numeric(trigger.value)
       /\ ParseDigits(value) > ParseDigits(trigger.value)
    \/ trigger.operator = "LessThan" /\ Numeric(value) /\ Numeric(trigger.value)
       /\ ParseDigits(value) < ParseDigits(trigger.value)

\* The positions of the condition triggers whose field is present and whose
\* operator holds.
HoldingTriggers ==
    {i \in 1..Len(fin.pattern.condition_triggers) :
        LET trigger == fin.pattern.condition_triggers[i]
        IN  /\ trigger.field \in DOMAIN fin.field_values
            /\ OperatorHolds(trigger, fin.field_values[trigger.field])}

LogLevelIsKey ==
    IsSome(fin.log_level) /\ Unwrap(fin.log_level) \in DOMAIN fin.pattern.log_level_triggers

\* C10: evaluate_severity returns the log_level_triggers severity when the log
\* level is set and is a key of the map; otherwise the severity of the first
\* condition trigger, in list order, whose field is present and whose operator
\* holds; otherwise the pattern's default severity.
C10_EvaluateSeverityOrder ==
    fphase = "detection" =>
        fout.final_severity =
            IF LogLevelIsKey THEN fin.pattern.log_level_triggers[Unwrap(fin.log_level)]
            ELSE IF HoldingTriggers # {}
                 THEN fin.pattern.condition_triggers[
                          CHOOSE i \in HoldingTriggers : \A j \in HoldingTriggers : i <= j].severity
                 ELSE fin.pattern.severity

\* The log level is a key of the map although a condition trigger holds too,
\* and the log-level severity is returned.
C10_Witness ==
    /\ fphase = "detection"
    /\ LogLevelIsKey
    /\ HoldingTriggers = {2}
    /\ fin.pattern.condition_triggers[1].operator = "GreaterThan"
    /\ fin.pattern.condition_triggers[1].field \in DOMAIN fin.field_values
    /\ fout.final_severity = "Hint"
    /\ fin.pattern.condition_triggers[2].severity = "Error"
    /\ fin.pattern.severity = "Warning"

\* The template with every placeholder of a key of v replaced by the raw value
\* and every other token verbatim.
RECURSIVE RawSubstitution(_, _)
RawSubstitution(tokens, v) ==
    IF tokens = <<>> THEN <<>>
    ELSE (IF Head(tokens).name \in DOMAIN v THEN v[Head(tokens).name] ELSE Head(tokens).text)
         \o RawSubstitution(Tail(tokens), v)

\* C9: substitute_template(t, v) replaces every placeholder of a key of v, in
\* any spacing variant, with the raw value unchanged, and leaves every
\* placeholder whose name is not a key of v verbatim.
C9_RawValuesSubstituted ==
    fphase = "substituted" => fout = RawSubstitution(fin.tokens, fin.field_values)

\* C21: when every field the template refers to is a key of v, substituting
\* the result again with v gives the result back.
C21_SubstitutionIdempotent ==
    (/\ fphase = "substituted_again"
     /\ \A i \in 1..Len(fin.tokens) :
           fin.tokens[i].name # "" => fin.tokens[i].name \in DOMAIN fin.field_values)
    => fout.second = fout.first

(***************************************************************************)
(*                    CLAIMS ABOUT THE CONTEXT PROCESSOR                   *)
(***************************************************************************)

\* The last n elements of s.
LastOf(s, n) == [i \in 1..n |-> s[Len(s) - n + i]]

\* C22: the buffer holds lines in the order they were pushed; get_context(k)
\* returns the last min(k, len) lines of the buffer, in order, and never more
\* than k; after reset() current_line is 0 and the buffer is empty.
C22_ContextIsLastLines ==
    /\ Len(fin.context_buffer) <= Len(fout.pushed)
    /\ fin.context_buffer = LastOf(fout.pushed, Len(fin.context_buffer))
    /\ fphase = "got" =>
          /\ Len(fout.context) <= fout.lines
          /\ Len(fout.context) = Min(fout.lines, Len(fin.context_buffer))
          /\ fout.context = LastOf(fin.context_buffer, Len(fout.context))
    /\ fphase = "reset" => fin.current_line = 0 /\ fin.context_buffer = <<>>

\* Three lines were pushed into a window of two, and get_context(1) returned
\* the last of them.
C22_Witness ==
    /\ fphase = "got" /\ fin.max_window = 2 /\ fout.pushed = <<"a", "b", "a">>
    /\ fin.context_buffer = <<"b", "a">> /\ fout.lines = 1 /\ fout.context = <<"a">>

\* C33: for every window N >= 0 the buffer holds at most N lines, which are the
\* last min(N, pushed) lines pushed since creation or the last reset, and
\* current_line is the number of those pushes.
C33_BufferIsBoundedFifo ==
    /\ Len(fin.context_buffer) <= fin.max_window
    /\ fin.context_buffer = LastOf(fout.pushed, Min(fin.max_window, Len(fout.pushed)))
    /\ fin.current_line = Len(fout.pushed)

(***************************************************************************)
(*                    CLAIMS ABOUT THE AUTO-REFRESH LOOP                   *)
(***************************************************************************)

\* C23: once the loop is spawned, a loop that waits for its ticker goes on to
\* call sync(), and a sync() that returned, with Ok or with Err, is followed by
\* the wait for the next tick: sync() is called again and again.
C23_AutoRefreshKeepsSyncing ==
    /\ (fphase = "ticking") ~> (fphase = "syncing")
    /\ (fphase = "syncing") ~> (fphase = "ticking")

\* A sync() has been started after one that failed and was logged.
C23_Witness ==
    /\ fphase = "syncing" /\ fout.last = "err"
    /\ fout.logged_errors >= 1 /\ fout.syncs >= 2

\* C24: after shutdown no further sync() is started.
C24_NoSyncAfterShutdown ==
    [][fin.shutdown => ~(fphase # "syncing" /\ fphase' = "syncing")]_vars

(***************************************************************************)
(*                    CLAIMS ABOUT PatternCache::merge                     *)
(***************************************************************************)

\* C28: after self.merge(other), an id of both caches has the entry with the
\* later cached_at, the existing one on a tie; an id of other alone has other's
\* entry; an id of self alone keeps its entry; no other id is present; and
\* pattern_count is the number of entries.
C28_MergeKeepsNewer ==
    fphase = "merged" =>
        LET mine == fin.self.patterns
            theirs == fin.other.patterns
        IN  /\ DOMAIN fout.patterns = DOMAIN mine \cup DOMAIN theirs
            /\ \A id \in DOMAIN mine \cap DOMAIN theirs :
                 fout.patterns[id] = IF theirs[id].cached_at > mine[id].cached_at
                                     THEN theirs[id] ELSE mine[id]
            /\ \A id \in DOMAIN theirs \ DOMAIN mine : fout.patterns[id] = theirs[id]
            /\ \A id \in DOMAIN mine \ DOMAIN theirs : fout.patterns[id] = mine[id]
            /\ fout.pattern_count = Cardinality(DOMAIN fout.patterns)

\* A merge in which id 1 is in both caches with equal cached_at and the existing
\* entry stayed, and id 2 came from other alone.
C28_Witness ==
    /\ fphase = "merged"
    /\ DOMAIN fin.self.patterns = {1} /\ DOMAIN fin.other.patterns = {1, 2}
    /\ fin.self.patterns[1].cached_at = fin.other.patterns[1].cached_at
    /\ fout.patterns[1].origin = "self" /\ fout.patterns[2].origin = "other"
    /\ fout.pattern_count = 2

(***************************************************************************)
(*                 CLAIMS ABOUT PatternEngine::process_line                *)
(***************************************************************************)

\* C29: every detection process_line(line, n) returns has line_number = n and is
\* of a pattern of the list the engine was built from that is enabled and
\* SingleLine; no detection is of a disabled, MultiLine or Sequence pattern.
C29_OnlyEnabledSingleLine ==
    fphase = "processed" =>
        \A k \in 1..Len(fout.detections) :
            LET d == fout.detections[k]
            IN  /\ d.line_number = fin.line_number
                /\ d.pattern.enabled
                /\ d.pattern.mode = "SingleLine"
                /\ \E i \in 1..Len(fin.patterns) : fin.patterns[i] = d.pattern

\* process_line on a line that a MultiLine pattern and a disabled pattern of the
\* list would match too, returning the detection of the SingleLine pattern only.
C29_Witness ==
    /\ fphase = "processed"
    /\ fin.line = "hit" /\ fin.line_number = 1
    /\ \E i, j \in 1..Len(fin.patterns) :
         /\ fin.patterns[i].id = 1 /\ fin.patterns[i].enabled
         /\ fin.patterns[i].mode = "SingleLine"
         /\ fin.patterns[j].id = 1
         /\ (~fin.patterns[j].enabled \/ fin.patterns[j].mode = "MultiLine")
    /\ Len(fout.detections) = 1

(***************************************************************************)
(*              CLAIMS ABOUT THE CACHE UNDER REMOTE SYNCS                  *)
(***************************************************************************)

\* C31: every entry of the in-memory cache pairs a pattern with the annotation
\* it was converted from: the pattern id of the entry is the id of its
\* annotation, also after a remote sync in which an annotation was skipped.
C31_EntryPairsPatternWithItsAnnotation ==
    IsSome(cache) =>
        \A i \in DOMAIN Unwrap(cache).patterns :
            Unwrap(cache).patterns[i].pattern = Unwrap(cache).patterns[i].annotation

(***************************************************************************)
(*                    CLAIMS ABOUT detect_log_level                        *)
(***************************************************************************)

\* The priority list of the claim, each token with the level it maps to.
ClaimedPriority ==
    <<<<<<"F", "A", "T", "A", "L">>, "FATAL">>,
      <<<<"C", "R", "I", "T", "I", "C", "A", "L">>, "FATAL">>,
      <<<<"C", "R", "I", "T">>, "FATAL">>,
      <<<<"E", "R", "R", "O", "R">>, "ERROR">>,
      <<<<"E", "R", "R">>, "ERROR">>,
      <<<<"W", "A", "R", "N">>, "WARN">>,
      <<<<"W", "A", "R", "N", "I", "N", "G">>, "WARN">>,
      <<<<"I", "N", "F", "O">>, "INFO">>,
      <<<<"I", "N", "F", "O", "R", "M", "A", "T", "I", "O", "N">>, "INFO">>,
      <<<<"D", "E", "B", "U", "G">>, "DEBUG">>,
      <<<<"D", "B", "G">>, "DEBUG">>,
      <<<<"T", "R", "A", "C", "E">>, "TRACE">>,
      <<<<"T", "R", "C">>, "TRACE">>,
      <<<<"V", "E", "R", "B", "O", "S", "E">>, "VERBOSE">>,
      <<<<"V", "E", "R", "B">>, "VERBOSE">>>>

\* C34: detect_log_level(line) is the level of the first token of the priority
\* list that occurs anywhere in the line, wherever the tokens stand in it, and
\* None when no token occurs; it is one of FATAL, ERROR, WARN, INFO, DEBUG,
\* TRACE and VERBOSE, never WARNING.
C34_FirstTokenOfPriorityList ==
    fphase = "detected" =>
        LET occurring == {i \in 1..Len(ClaimedPriority) : Contains(fin, ClaimedPriority[i][1])}
        IN  /\ occurring = {} => fout = None
            /\ occurring # {} =>
                 \E i \in occurring :
                     /\ \A j \in occurring : i <= j
                     /\ fout = Some(ClaimedPriority[i][2])
            /\ fout \in {None} \cup {Some(l) : l \in {"FATAL", "ERROR", "WARN", "INFO",
                                                       "DEBUG", "TRACE", "VERBOSE"}}

\* A line with INFO before ERR is detected as ERROR.
C34_Witness ==
    /\ fphase = "detected"
    /\ fin = <<"I", "N", "F", "O", "E", "R", "R">>
    /\ fout = Some("ERROR")

\* C35: a step that is not the reload of the cache file by sync_from_cache
\* removes no pattern id from the in-memory cache; in particular the update of
\* a remote sync keeps every id the cache held.
C35_CacheOnlyGrowsUnderSync ==
    [][(IsSome(cache) /\ ~(\E t \in Tasks : spc[t] = "c_load" /\ spc'[t] # "c_load"))
       => /\ IsSome(cache')
          /\ DOMAIN Unwrap(cache).patterns \subseteq DOMAIN Unwrap(cache').patterns]_vars

\* The first sync loaded the cache file, which holds id 1; a remote sync has
\* then cached one pattern only, that of id 2, and the cache still holds id 1.
C35_Witness ==
    /\ spc[1] = "done" /\ sres[1].ok /\ sres[1].from_cache
    /\ spc[2] = "done" /\ sres[2].ok /\ ~sres[2].from_cache
    /\ sres[2].patterns_cached = 1
    /\ IsSome(cache) /\ DOMAIN Unwrap(cache).patterns = {1, 2}

(***************************************************************************)
(*                    CLAIMS ABOUT THE LOCKS                               *)
(***************************************************************************)

\* C37: provided every I/O call returns, whenever handlers are running, the
\* background initialization included, a state is reached in which every one of
\* them has returned: no interleaving leaves a task waiting for a lock for ever.
C37_EveryHandlerCompletes ==
    (\E t \in LockTasks : Running(t)) ~> (\A t \in LockTasks : ~Running(t))

\* A refresh holds its read guard of the stored service and is the first waiter
\* for the write guard of the engine, which an analysis holds for reading.
C37_Witness ==
    /\ fin.stored
    /\ fin.locks["tagscout_service"].readers # {}
    /\ fin.locks["pattern_engine"].readers # {}
    /\ fin.locks["pattern_engine"].queue # <<>>
    /\ Head(fin.locks["pattern_engine"].queue)[2] = "write"

(***************************************************************************)
(*              CLAIMS ABOUT THE DETERMINISM OF THE PIPELINE               *)
(***************************************************************************)

\* C38: two runs of deduplicate_detections on the same list return the same
\* list, in the same order.
C38_DeduplicationDeterministic ==
    fphase = "deduplicated_again" => fout.second = fout.first

\* C39: the result of substitute_template(t, v) does not depend on the order
\* in which the entries of v are visited: every visiting order yields the
\* string that was returned.
C39_VisitingOrderIrrelevant ==
    fphase = "substituted" =>
        \A order \in IterationOrders(DOMAIN fin.field_values) :
            SubstituteTemplate(TemplateText(fin.tokens), fin.field_values, order) = fout

(***************************************************************************)
(*          CLAIMS ABOUT THE PATTERN MODES THE SERVER ANALYSES             *)
(***************************************************************************)

\* C40: the server's analysis never produces a diagnostic for a pattern in
\* MultiLine or Sequence mode: whatever the document text, every diagnostic of
\* analyze_text is of a SingleLine pattern.
C40_NoMultiLineOrSequenceDiagnostic ==
    fphase = "analysed" =>
        \A k \in 1..Len(fout.diagnostics) :
            fout.diagnostics[k].pattern.mode \notin {"MultiLine", "Sequence"}

\* An engine that holds an enabled MultiLine pattern and an enabled Sequence
\* pattern has analysed a text whose lines both match them, with no diagnostic.
C40_Witness ==
    /\ fphase = "analysed"
    /\ fin.text = TextA
    /\ IsSome(fout.engine)
    /\ \E i, j \in 1..Len(Unwrap(fout.engine).patterns) :
         /\ Unwrap(fout.engine).patterns[i].mode = "MultiLine"
         /\ Unwrap(fout.engine).patterns[j].mode = "Sequence"
    /\ fout.diagnostics = <<>>

=============================================================================
